---- MODULE Spec2Model ----
(***************************************************************************)
(* A model of the crust-render path tracer: bounding boxes, the BVH and    *)
(* the flat list, the recursive radiance estimator, the scanline and tiled  *)
(* renderers, the frame buffer, the mesh cache and the materials' pdfs.     *)
(*                                                                         *)
(* Floating point numbers are modelled as exact rationals <<n, d>> with    *)
(* d > 0, extended by the IEEE values the code can produce by dividing by  *)
(* zero: +inf = <<1, 0>>, -inf = <<-1, 0>> and NaN = <<0, 0>>.  Rounding is *)
(* modelled in the sections whose result depends on it, and only there.    *)
(***************************************************************************)
EXTENDS Integers, Sequences, FiniteSets, TLC

VARIABLES
    \* --- acceleration structure (bvhnode.rs, hittable_list.rs, aabb.rs)
    scene,      \* the primitives handed to BVHNode::build / HittableList::add
    ray,        \* the query ray [orig, dir]
    t_min,      \* the query interval
    t_max,
    bvh,        \* the tree returned by BVHNode::build, NoTree before
    bvhRes,     \* result of the query against the tree
    listRes,    \* result of the query against the flat list
    \* --- renderer (tracer.rs) and frame buffer (buffer.rs)
    mode,       \* "scanline": Renderer::render, "tiles": Renderer::render_with_tiles
    width,      \* settings.width
    height,     \* settings.height
    rpc,        \* where the render is: "init", "row", "tiles", "done"
    row,        \* scanline: the row j of the outer loop
    rowColors,  \* scanline: pixel_colors of the tasks of this row that have finished
    tiles,      \* tiled: the Vec<Tile> of generate_tiles
    tileOut,    \* tiled: the `local` vector of every tile task that has finished
    buffer,     \* Buffer.data, << >> before Buffer::new
    writes,     \* how often set_pixel stored into each slot of Buffer.data
    bar,        \* the position of the ProgressBar
    \* --- radiance estimator (tracer.rs: ray_color)
    tworld,     \* the world: a HittableList
    tlights,    \* lights.lights
    max_depth,  \* settings.max_depth, the depth of the outermost call
    stack,      \* the invocations of ray_color that have not returned, outermost first
    radiance,   \* what the outermost call returned, Pending before
    \* --- mesh cache (scene_cache.rs, document.rs: load_obj_bvh)
    cache,      \* GLOBAL_OBJ_CACHE: the HashMap from path to Arc<dyn Hittable>
    cpc,        \* where each thread is in load_obj_bvh
    cargs,      \* the arguments of each thread's call
    cbvh,       \* each thread's local `bvh`
    cret,       \* what each thread's call returned
    ncalls,     \* how many calls each thread has made
    nbuilt,     \* how many trees BVHNode::build has returned
    opened,     \* how often File::open has opened each path
    \* --- a frame buffer and its readers (buffer.rs of both binaries)
    bimpl,      \* whose Buffer it is: "crust-render" or "src"
    bwidth,     \* Buffer.width
    bheight,    \* Buffer.height
    bdata,      \* Buffer.data
    blast,      \* the color last stored with set_pixel(x, y, .), by <<x, y>>
    brgb,       \* the last get_rgb: its x, y and what it returned
    \* --- one call of Material::scatter_importance
    pmat,       \* the material and its parameters
    pnormal,    \* rec.normal
    pview,      \* v, the unit vector against the incoming ray
    pdraw,      \* the first random number the call draws
    pres,       \* what the call returned, Pending before
    \* --- one call of a function of the geometry or sampling code
    call,       \* the function called and its arguments
    result      \* what it returned, Pending before

geomVars == <<scene, ray, t_min, t_max, bvh, bvhRes, listRes>>
renderVars == <<mode, width, height, rpc, row, rowColors, tiles, tileOut, buffer, writes, bar>>

traceVars == <<tworld, tlights, max_depth, stack, radiance>>

cacheVars == <<cache, cpc, cargs, cbvh, cret, ncalls, nbuilt, opened>>

bufVars == <<bimpl, bwidth, bheight, bdata, blast, brgb>>

pdfVars == <<pmat, pnormal, pview, pdraw, pres>>

callVars == <<call, result>>

vars == <<geomVars, renderVars, traceVars, cacheVars, bufVars, pdfVars, callVars>>

\* What the actions of one part of the program leave alone.
notGeom == <<renderVars, traceVars, cacheVars, bufVars, pdfVars, callVars>>
notRender == <<geomVars, traceVars, cacheVars, bufVars, pdfVars, callVars>>
notTrace == <<geomVars, renderVars, cacheVars, bufVars, pdfVars, callVars>>
notCache == <<geomVars, renderVars, traceVars, bufVars, pdfVars, callVars>>
notBuf == <<geomVars, renderVars, traceVars, cacheVars, pdfVars, callVars>>
notPdf == <<geomVars, renderVars, traceVars, cacheVars, bufVars, callVars>>
notCall == <<geomVars, renderVars, traceVars, cacheVars, bufVars, pdfVars>>

-----------------------------------------------------------------------------
(* Extended rationals: f32 without rounding.                                *)

PosInf == <<1, 0>>
NegInf == <<-1, 0>>
NaN == <<0, 0>>

IsNaN(a) == a[2] = 0 /\ a[1] = 0
IsInf(a) == a[2] = 0 /\ a[1] # 0

Sign(n) == IF n > 0 THEN 1 ELSE IF n < 0 THEN -1 ELSE 0

Abs(n) == IF n < 0 THEN -n ELSE n

\* n / d for integers n, d, as IEEE division: x/0 is +-inf, 0/0 is NaN.
\* The zero of a direction component is +0.0.
Q(n, d) ==
    IF d > 0 THEN <<n, d>>
    ELSE IF d < 0 THEN <<-n, -d>>
    ELSE <<Sign(n), 0>>

R(n) == <<n, 1>>

\* a < b; every comparison with NaN is false.
Lt(a, b) ==
    IF IsNaN(a) \/ IsNaN(b) THEN FALSE
    ELSE IF a[2] = 0 /\ b[2] = 0 THEN a[1] < b[1]
    ELSE a[1] * b[2] < b[1] * a[2]

Le(a, b) ==
    IF IsNaN(a) \/ IsNaN(b) THEN FALSE
    ELSE IF a[2] = 0 /\ b[2] = 0 THEN a[1] <= b[1]
    ELSE a[1] * b[2] <= b[1] * a[2]

\* Equality of values (2/4 = 1/2); NaN equals nothing.
Eq(a, b) == Le(a, b) /\ Le(b, a)

\* f32::max and f32::min: when one argument is NaN the other is returned.
FMax(a, b) == IF IsNaN(a) THEN b ELSE IF IsNaN(b) THEN a ELSE IF Lt(a, b) THEN b ELSE a
FMin(a, b) == IF IsNaN(a) THEN b ELSE IF IsNaN(b) THEN a ELSE IF Lt(b, a) THEN b ELSE a

\* (x - y) * inv_d with inv_d = 1.0 / d, for integers x, y, d.
\* With d = 0, inv_d is +inf and 0 * inf is NaN.
MulInv(x, y, d) == Q(x - y, d)

-----------------------------------------------------------------------------
(* Vectors with integer components.                                         *)

Dot(a, b) == a[1] * b[1] + a[2] * b[2] + a[3] * b[3]
Cross(a, b) ==
    << a[2] * b[3] - a[3] * b[2],
       a[3] * b[1] - a[1] * b[3],
       a[1] * b[2] - a[2] * b[1] >>
Sub(a, b) == <<a[1] - b[1], a[2] - b[2], a[3] - b[3]>>
Add(a, b) == <<a[1] + b[1], a[2] + b[2], a[3] + b[3]>>
LengthSquared(a) == Dot(a, a)

Min2(a, b) == IF a < b THEN a ELSE b
Max2(a, b) == IF a > b THEN a ELSE b

-----------------------------------------------------------------------------
(* aabb.rs                                                                  *)

AABB(minimum, maximum) == [minimum |-> minimum, maximum |-> maximum]

\* surrounding_box that returns box0.
surrounding_box_first(box0, box1) == box0

\* surrounding_box that keeps the maximum of box0.
surrounding_box_of_minimums(box0, box1) ==
    AABB(<< Min2(box0.minimum[1], box1.minimum[1]),
            Min2(box0.minimum[2], box1.minimum[2]),
            Min2(box0.minimum[3], box1.minimum[3]) >>,
         box0.maximum)

surrounding_box(box0, box1) ==
    AABB(<< Min2(box0.minimum[1], box1.minimum[1]),
            Min2(box0.minimum[2], box1.minimum[2]),
            Min2(box0.minimum[3], box1.minimum[3]) >>,
         << Max2(box0.maximum[1], box1.maximum[1]),
            Max2(box0.maximum[2], box1.maximum[2]),
            Max2(box0.maximum[3], box1.maximum[3]) >>)

triangle_aabb(v0, v1, v2) ==
    AABB(<< Min2(Min2(v0[1], v1[1]), v2[1]),
            Min2(Min2(v0[2], v1[2]), v2[2]),
            Min2(Min2(v0[3], v1[3]), v2[3]) >>,
         << Max2(Max2(v0[1], v1[1]), v2[1]),
            Max2(Max2(v0[2], v1[2]), v2[2]),
            Max2(Max2(v0[3], v1[3]), v2[3]) >>)

\* One iteration of the loop of AABB::hit for axis a: FALSE when the loop
\* returns false in it.  The narrowed t_min and t_max are `let` bindings of
\* the loop body, so every axis starts again from the arguments tmin, tmax.
AxisPasses(box, r, tmin, tmax, a) ==
    LET negInv == r.dir[a] < 0
        x0 == MulInv(box.minimum[a], r.orig[a], r.dir[a])
        x1 == MulInv(box.maximum[a], r.orig[a], r.dir[a])
        t0 == IF negInv THEN x1 ELSE x0
        t1 == IF negInv THEN x0 ELSE x1
        lo == FMax(tmin, t0)
        hi == FMin(tmax, t1)
    IN  ~ Le(hi, lo)

AABBHit(box, r, tmin, tmax) ==
    \A a \in 1..3 : AxisPasses(box, r, tmin, tmax, a)

\* AABB::hit of crust-core (crust-core/src/aabb.rs): t_min and t_max are
\* `mut` parameters assigned in the loop, so axis a starts from the interval
\* the axes before it left.
RECURSIVE CoreHitFrom(_, _, _, _, _)
CoreHitFrom(box, r, tmin, tmax, a) ==
    IF a > 3 THEN TRUE
    ELSE LET negInv == r.dir[a] < 0
             x0 == MulInv(box.minimum[a], r.orig[a], r.dir[a])
             x1 == MulInv(box.maximum[a], r.orig[a], r.dir[a])
             t0 == IF negInv THEN x1 ELSE x0
             t1 == IF negInv THEN x0 ELSE x1
             lo == FMax(tmin, t0)
             hi == FMin(tmax, t1)
         IN  IF Le(hi, lo) THEN FALSE
             ELSE CoreHitFrom(box, r, lo, hi, a + 1)

AABBHitCore(box, r, tmin, tmax) == CoreHitFrom(box, r, tmin, tmax, 1)

-----------------------------------------------------------------------------
(* Primitives: primitives/triangle.rs, primitives/prim.rs                   *)

Neg(a) == <<-a[1], -a[2], -a[3]>>
Scale(k, a) == <<k * a[1], k * a[2], k * a[3]>>

\* set_face_normal that records front_face and keeps the outward normal.
set_face_normal_unflipped(r, outward_normal) ==
    [front_face |-> Dot(r.dir, outward_normal) < 0, normal |-> outward_normal]

\* HitRecord::set_face_normal.  A normal is kept as a vector of its
\* direction (a positive multiple of the unit normal), so the sign of every
\* dot product with it is exact.
set_face_normal(r, outward_normal) ==
    LET front_face == Dot(r.dir, outward_normal) < 0
    IN  [front_face |-> front_face,
         normal |-> IF front_face THEN outward_normal ELSE Neg(outward_normal)]

\* The HitRecord of a hit and of a miss.  rec.p is r.at(rec.t).
NoHit == [hit |-> FALSE]
HitAt(t, mat, r, outward_normal) ==
    [hit |-> TRUE, t |-> t, mat |-> mat,
     front_face |-> set_face_normal(r, outward_normal).front_face,
     normal |-> set_face_normal(r, outward_normal).normal]

Triangle(v0, v1, v2, mat) == [kind |-> "tri", v0 |-> v0, v1 |-> v1, v2 |-> v2, mat |-> mat]
Sphere(center, radius, mat) == [kind |-> "sph", center |-> center, radius |-> radius, mat |-> mat]

\* triangle_hit without the test of a, and with the test of u written as
\* `u < 0.0 || u > 1.0`, which a NaN passes.
triangle_hit_unguarded(r, v0, v1, v2, tmin, tmax, mat) ==
    LET edge1 == Sub(v1, v0)
        edge2 == Sub(v2, v0)
        h == Cross(r.dir, edge2)
        a == Dot(edge1, h)
        s == Sub(r.orig, v0)
        u == Q(Dot(s, h), a)
        q == Cross(s, edge1)
        v == Q(Dot(r.dir, q), a)
        uv == Q(Dot(s, h) + Dot(r.dir, q), a)
        t == Q(Dot(edge2, q), a)
    IN  IF Lt(u, R(0)) \/ Lt(R(1), u) THEN NoHit
        ELSE IF Lt(v, R(0)) \/ Lt(R(1), uv) THEN NoHit
        ELSE IF Lt(t, tmin) \/ Lt(tmax, t) THEN NoHit
        ELSE HitAt(t, mat, r, Cross(edge1, edge2))

\* Moeller-Trumbore.  u = su / a, v = sv / a and t = st / a are compared
\* without dividing; a is an integer here, so |a| < 1e-6 is a = 0.
triangle_hit(r, v0, v1, v2, tmin, tmax, mat) ==
    LET edge1 == Sub(v1, v0)
        edge2 == Sub(v2, v0)
        h == Cross(r.dir, edge2)
        a == Dot(edge1, h)
        s == Sub(r.orig, v0)
        u == Q(Dot(s, h), a)
        q == Cross(s, edge1)
        v == Q(Dot(r.dir, q), a)
        uv == Q(Dot(s, h) + Dot(r.dir, q), a)
        t == Q(Dot(edge2, q), a)
    IN  IF a = 0 THEN NoHit
        ELSE IF ~ (Le(R(0), u) /\ Le(u, R(1))) THEN NoHit
        ELSE IF Lt(v, R(0)) \/ Lt(R(1), uv) THEN NoHit
        ELSE IF Lt(t, tmin) \/ Lt(tmax, t) THEN NoHit
        ELSE HitAt(t, mat, r, Cross(edge1, edge2))

\* SmoothTriangle::hit: the same intersection; the normal is interpolated
\* from the vertex normals with the weights w = 1 - u - v, u and v.  It is
\* kept as a vector of its direction: a^2 times n0 * w + n1 * u + n2 * v.
smooth_triangle_hit(r, v0, v1, v2, n0, n1, n2, tmin, tmax, mat) ==
    LET edge1 == Sub(v1, v0)
        edge2 == Sub(v2, v0)
        h == Cross(r.dir, edge2)
        a == Dot(edge1, h)
        s == Sub(r.orig, v0)
        su == Dot(s, h)
        u == Q(su, a)
        q == Cross(s, edge1)
        sv == Dot(r.dir, q)
        v == Q(sv, a)
        uv == Q(su + sv, a)
        t == Q(Dot(edge2, q), a)
        interpolated_normal ==
            Scale(a, Add(Add(Scale(a - su - sv, n0), Scale(su, n1)), Scale(sv, n2)))
    IN  IF a = 0 THEN NoHit
        ELSE IF ~ (Le(R(0), u) /\ Le(u, R(1))) THEN NoHit
        ELSE IF Lt(v, R(0)) \/ Lt(R(1), uv) THEN NoHit
        ELSE IF Lt(t, tmin) \/ Lt(tmax, t) THEN NoHit
        ELSE HitAt(t, mat, r, interpolated_normal)

IsSquare(n) == n >= 0 /\ \E k \in 0..n : k * k = n
Sqrt(n) == CHOOSE k \in 0..n : k * k = n

SphereDiscriminant(r, center, radius) ==
    LET oc == Sub(r.orig, center)
        a == LengthSquared(r.dir)
        half_b == Dot(oc, r.dir)
        c == LengthSquared(oc) - radius * radius
    IN  half_b * half_b - a * c

\* The Sphere arm of Object::hit with the two roots tried in the other order.
sphere_hit_far_first(r, center, radius, tmin, tmax, mat) ==
    LET oc == Sub(r.orig, center)
        a == LengthSquared(r.dir)
        half_b == Dot(oc, r.dir)
        discriminant == SphereDiscriminant(r, center, radius)
        sqrt_d == Sqrt(discriminant)
        root1 == Q(-half_b - sqrt_d, a)
        root2 == Q(-half_b + sqrt_d, a)
        outward(root) == Add(Scale(root[2], oc), Scale(root[1], r.dir))
    IN  IF discriminant < 0 THEN NoHit
        ELSE IF ~ (Le(root2, tmin) \/ Le(tmax, root2)) THEN HitAt(root2, mat, r, outward(root2))
        ELSE IF ~ (Le(root1, tmin) \/ Le(tmax, root1)) THEN HitAt(root1, mat, r, outward(root1))
        ELSE NoHit

\* The Sphere arm of Object::hit.  The square root is exact: the rays of the
\* model are those whose discriminant is negative or a perfect square.
sphere_hit(r, center, radius, tmin, tmax, mat) ==
    LET oc == Sub(r.orig, center)
        a == LengthSquared(r.dir)
        half_b == Dot(oc, r.dir)
        discriminant == SphereDiscriminant(r, center, radius)
        sqrt_d == Sqrt(discriminant)
        root1 == Q(-half_b - sqrt_d, a)
        root2 == Q(-half_b + sqrt_d, a)
        \* (rec.p - center) / radius has the direction of a * (rec.p - center)
        outward(root) == Add(Scale(root[2], oc), Scale(root[1], r.dir))
    IN  IF discriminant < 0 THEN NoHit
        ELSE IF ~ (Le(root1, tmin) \/ Le(tmax, root1)) THEN HitAt(root1, mat, r, outward(root1))
        ELSE IF ~ (Le(root2, tmin) \/ Le(tmax, root2)) THEN HitAt(root2, mat, r, outward(root2))
        ELSE NoHit

-----------------------------------------------------------------------------
(* bvhnode.rs, hittable_list.rs                                             *)

BVHNode(left, right, bbox) == [kind |-> "node", left |-> left, right |-> right, bbox |-> bbox]

\* Hittable::bounding_box, by dynamic dispatch.
bounding_box(obj) ==
    CASE obj.kind = "tri" -> triangle_aabb(obj.v0, obj.v1, obj.v2)
      [] obj.kind = "sph" ->
            AABB(Sub(obj.center, <<obj.radius, obj.radius, obj.radius>>),
                 Add(obj.center, <<obj.radius, obj.radius, obj.radius>>))
      [] obj.kind = "node" -> obj.bbox

\* AABB::compare_x / compare_y / compare_z: the key objects are sorted by.
SortKey(obj, axis) == bounding_box(obj).minimum[axis]

\* Vec::sort_by is a stable sort: x goes behind every element whose key is
\* not greater.
RECURSIVE InsertSorted(_, _, _)
InsertSorted(sorted, x, axis) ==
    IF sorted = << >> THEN <<x>>
    ELSE IF SortKey(sorted[Len(sorted)], axis) <= SortKey(x, axis)
         THEN Append(sorted, x)
         ELSE Append(InsertSorted(SubSeq(sorted, 1, Len(sorted) - 1), x, axis),
                     sorted[Len(sorted)])

RECURSIVE SortBy(_, _)
SortBy(objects, axis) ==
    IF objects = << >> THEN << >>
    ELSE InsertSorted(SortBy(SubSeq(objects, 1, Len(objects) - 1), axis),
                      objects[Len(objects)], axis)

\* BVHNode::build: every tree it can return for a non-empty list, one for
\* each way the split axes can be drawn.
RECURSIVE build(_)
build(objects) ==
    UNION { LET sorted == SortBy(objects, axis)
                mid == Len(sorted) \div 2
            IN  IF Len(sorted) = 1 THEN { sorted[1] }
                ELSE IF Len(sorted) = 2 THEN
                    { BVHNode(sorted[1], sorted[2],
                              surrounding_box(bounding_box(sorted[1]),
                                              bounding_box(sorted[2]))) }
                ELSE
                    { BVHNode(l, rt, surrounding_box(bounding_box(l), bounding_box(rt))) :
                        l \in build(SubSeq(sorted, 1, mid)),
                        rt \in build(SubSeq(sorted, mid + 1, Len(sorted))) }
          : axis \in 1..3 }

\* Hittable::hit by dynamic dispatch; the node arm is BVHNode::hit.
RECURSIVE Hit(_, _, _, _)
Hit(obj, r, tmin, tmax) ==
    CASE obj.kind = "tri" -> triangle_hit(r, obj.v0, obj.v1, obj.v2, tmin, tmax, obj.mat)
      [] obj.kind = "sph" -> sphere_hit(r, obj.center, obj.radius, tmin, tmax, obj.mat)
      [] obj.kind = "node" ->
            IF ~ AABBHit(obj.bbox, r, tmin, tmax) THEN NoHit
            ELSE LET l == Hit(obj.left, r, tmin, tmax)
                     closest_so_far == IF l.hit THEN l.t ELSE tmax
                     rt == Hit(obj.right, r, tmin, closest_so_far)
                 IN  IF rt.hit THEN rt ELSE l

\* HittableList::hit: the loop over objects[i..], with the record and the
\* closest_so_far of the iterations before.
RECURSIVE ListHitFrom(_, _, _, _, _, _)
ListHitFrom(objects, i, r, tmin, closest_so_far, rec) ==
    IF i > Len(objects) THEN rec
    ELSE LET h == Hit(objects[i], r, tmin, closest_so_far)
         IN  IF h.hit THEN ListHitFrom(objects, i + 1, r, tmin, h.t, h)
             ELSE ListHitFrom(objects, i + 1, r, tmin, closest_so_far, rec)

HittableListHit(objects, r, tmin, tmax) == ListHitFrom(objects, 1, r, tmin, tmax, NoHit)

-----------------------------------------------------------------------------
(* Nearest-hit queries against a tree and against the flat list.            *)

MaxPrims == 3
MaxCoord == 1

\* The primitives scenes are made of: two coplanar axis-aligned triangles,
\* a triangle behind them, a slanted triangle and a sphere.
Catalogue ==
    << Triangle(<<0, 0, 0>>, <<2, 0, 0>>, <<0, 2, 0>>, "matA"),
       Triangle(<<0, 0, 0>>, <<0, 2, 0>>, <<-2, 0, 0>>, "matB"),
       Triangle(<<0, 0, -1>>, <<2, 0, -1>>, <<0, 2, -1>>, "matC"),
       Triangle(<<0, 0, 1>>, <<3, 0, 1>>, <<0, 3, -2>>, "matD"),
       Sphere(<<1, 1, -3>>, 1, "matE") >>

\* Non-empty lists of catalogue indices, in increasing order.
RECURSIVE IncreasingSeqs(_)
IncreasingSeqs(n) ==
    IF n = 0 THEN { << >> }
    ELSE LET shorter == IncreasingSeqs(n - 1)
         IN  shorter \cup
             { Append(q, i) : q \in { x \in shorter : Len(x) = n - 1 },
                              i \in 1..Len(Catalogue) }

Increasing(q) == \A i \in 1..(Len(q) - 1) : q[i] < q[i + 1]

Scenes ==
    { [i \in 1..Len(q) |-> Catalogue[q[i]]] :
        q \in { x \in IncreasingSeqs(MaxPrims) : Len(x) >= 1 /\ Increasing(x) } }

Origins == { <<x, y, z>> : x \in 0..MaxCoord, y \in 0..MaxCoord, z \in {-2, 2} }
Directions == { <<0, 0, -1>>, <<0, 0, 1>>, <<0, 1, -1>>, <<1, 0, 0>>, <<0, 0, -2>> }
Rays == { [orig |-> o, dir |-> d] : o \in Origins, d \in Directions }

\* [t_min, t_max] as ray_color uses them (0.001 to infinity, 0.001 to a
\* light's distance) and with bounds that a hit can equal.
Intervals == { <<Q(1, 1000), PosInf>>, <<R(0), PosInf>>, <<R(0), R(2)>>, <<R(2), R(5)>> }

\* The rays whose intersection with every sphere of the list is computed
\* without rounding.
ExactFor(objects, r) ==
    \A i \in 1..Len(objects) :
        objects[i].kind = "sph" =>
            LET d == SphereDiscriminant(r, objects[i].center, objects[i].radius)
            IN  d < 0 \/ IsSquare(d)

NoTree == [kind |-> "none"]
Pending == [pending |-> TRUE]

\* The acceleration structure when another part of the program is checked.
GeomIdle ==
    /\ scene = << >>
    /\ ray = [orig |-> <<0, 0, 0>>, dir |-> <<0, 0, 1>>]
    /\ t_min = R(0)
    /\ t_max = PosInf
    /\ bvh = NoTree
    /\ bvhRes = Pending
    /\ listRes = Pending

GeomInit ==
    /\ scene \in Scenes
    /\ ray \in { r \in Rays : ExactFor(scene, r) }
    /\ \E iv \in Intervals : t_min = iv[1] /\ t_max = iv[2]
    /\ bvh = NoTree
    /\ bvhRes = Pending
    /\ listRes = Pending

\* BVHNode::build(scene)
Build ==
    /\ bvh = NoTree
    /\ bvh' \in build(scene)
    /\ UNCHANGED <<scene, ray, t_min, t_max, bvhRes, listRes>>
    /\ UNCHANGED notGeom

\* bvh.hit(ray, t_min, t_max, rec)
QueryBVH ==
    /\ bvh # NoTree
    /\ bvhRes = Pending
    /\ bvhRes' = Hit(bvh, ray, t_min, t_max)
    /\ UNCHANGED <<scene, ray, t_min, t_max, bvh, listRes>>
    /\ UNCHANGED notGeom

\* list.hit(ray, t_min, t_max, rec)
QueryList ==
    /\ listRes = Pending
    /\ listRes' = HittableListHit(scene, ray, t_min, t_max)
    /\ UNCHANGED <<scene, ray, t_min, t_max, bvh, bvhRes>>
    /\ UNCHANGED notGeom

GeomNext == Build \/ QueryBVH \/ QueryList

\* C1: a nearest-hit query against the tree built from a list of primitives
\* and the same query against the flat list agree on hit or no hit and, on a
\* hit, on t.
C1_BVHAgreesWithList ==
    (bvhRes # Pending /\ listRes # Pending) =>
        /\ bvhRes.hit = listRes.hit
        /\ bvhRes.hit => Eq(bvhRes.t, listRes.t)

\* Box outer contains box inner: on every axis its bounds enclose inner's.
Contains(outer, inner) ==
    \A a \in 1..3 :
        /\ outer.minimum[a] <= inner.minimum[a]
        /\ inner.maximum[a] <= outer.maximum[a]

\* The smallest box around boxes a and b.
UnionOf(a, b) ==
    AABB([i \in 1..3 |-> IF a.minimum[i] <= b.minimum[i] THEN a.minimum[i] ELSE b.minimum[i]],
         [i \in 1..3 |-> IF a.maximum[i] >= b.maximum[i] THEN a.maximum[i] ELSE b.maximum[i]])

\* The internal nodes of a tree, and the primitives beneath an object.
RECURSIVE NodesOf(_)
NodesOf(obj) ==
    IF obj.kind = "node" THEN {obj} \cup NodesOf(obj.left) \cup NodesOf(obj.right)
    ELSE {}

RECURSIVE PrimitivesBeneath(_)
PrimitivesBeneath(obj) ==
    IF obj.kind = "node"
    THEN PrimitivesBeneath(obj.left) \cup PrimitivesBeneath(obj.right)
    ELSE {obj}

NodeBoxesAreUnions ==
    bvh # NoTree =>
        \A node \in NodesOf(bvh) :
            /\ node.bbox = UnionOf(bounding_box(node.left), bounding_box(node.right))
            /\ \A prim \in PrimitivesBeneath(node) :
                  Contains(node.bbox, bounding_box(prim))

\* C11: in every tree BVHNode::build returns, the box of every internal
\* node is the union of the boxes of its two children and contains the box
\* of every primitive beneath the node; once built, the tree never changes.
C11_NodeBoxesContainChildren ==
    /\ [] NodeBoxesAreUnions
    /\ [][bvh # NoTree => bvh' = bvh]_vars

\* A tree of three primitives, with an internal node beneath the root, has
\* been queried after it was built.
C11_Witness ==
    /\ bvh # NoTree /\ bvh.kind = "node"
    /\ bvh.right.kind = "node"
    /\ Cardinality(PrimitivesBeneath(bvh)) = 3
    /\ bvh.bbox # bounding_box(bvh.left)
    /\ bvh.bbox # bvh.right.bbox
    /\ bvhRes # Pending

\* The primitives of the scene and, once the tree is built, its nodes.
CulledObjects ==
    { scene[i] : i \in 1..Len(scene) } \cup (IF bvh = NoTree THEN {} ELSE NodesOf(bvh))

\* The ray hits the object itself inside [t_min, t_max]: a primitive by its
\* own hit, a node by the hit of a primitive beneath it.
HitsItself(obj) ==
    \E prim \in PrimitivesBeneath(obj) : Hit(prim, ray, t_min, t_max).hit

\* C24: for every primitive and every node of the tree, every ray and every
\* interval, when the object itself is hit with a t inside the interval,
\* AABB::hit on the object's bounding_box returns true for the same ray and
\* interval; boxes of zero thickness and hits at a bound of the interval
\* included.
C24_CullingIsSound ==
    \A obj \in CulledObjects :
        HitsItself(obj) => AABBHit(bounding_box(obj), ray, t_min, t_max)

-----------------------------------------------------------------------------
(* buffer.rs                                                                *)

\* Vec3A::new(0.0, 0.0, 0.0)
Black == <<0, 0, 0>>

\* Buffer::new: width * height black pixels.
BufferNew(w, h) == [idx \in 0..(w * h - 1) |-> Black]

\* Buffer::set_pixel on the data vector: out-of-range coordinates are dropped.
set_pixel(data, w, h, x, y, color) ==
    IF x < w /\ y < h THEN [data EXCEPT ![y * w + x] = color] ELSE data

\* The slots set_pixel stores into, counted.
CountWrite(cnt, w, h, x, y) ==
    IF x < w /\ y < h THEN [cnt EXCEPT ![y * w + x] = @ + 1] ELSE cnt

\* Buffer::get_pixel: out-of-range coordinates read as black.
get_pixel(data, w, h, x, y) ==
    IF x >= 0 /\ y >= 0 /\ x < w /\ y < h THEN data[y * w + x] ELSE Black

-----------------------------------------------------------------------------
(* tracer.rs: Renderer::render, Renderer::render_with_tiles                 *)

TileSize == 16
MaxWidth == 18
MaxHeight == 17
MaxScanWidth == 4
MaxScanHeight == 3

Tile(x, y, w, h) == [x |-> x, y |-> y, width |-> w, height |-> h]

\* The inner loop of generate_tiles: the tiles of the row of tiles at y,
\* from x on.
RECURSIVE TilesOfRow(_, _, _, _, _)
TilesOfRow(image_width, image_height, tile_size, y, x) ==
    IF x >= image_width THEN << >>
    ELSE LET w == Min2(x + tile_size, image_width) - x
             h == Min2(y + tile_size, image_height) - y
         IN  <<Tile(x, y, w, h)>> \o
             TilesOfRow(image_width, image_height, tile_size, y, x + tile_size)

RECURSIVE TilesFrom(_, _, _, _)
TilesFrom(image_width, image_height, tile_size, y) ==
    IF y >= image_height THEN << >>
    ELSE TilesOfRow(image_width, image_height, tile_size, y, 0) \o
         TilesFrom(image_width, image_height, tile_size, y + tile_size)

\* generate_tiles without the .min(image_width) and .min(image_height).
generate_tiles_unclipped(image_width, image_height, tile_size) ==
    LET clipped == TilesFrom(image_width, image_height, tile_size, 0)
    IN  [k \in DOMAIN clipped |->
            Tile(clipped[k].x, clipped[k].y, tile_size, tile_size)]

generate_tiles(image_width, image_height, tile_size) ==
    TilesFrom(image_width, image_height, tile_size, 0)

\* The color a pixel task computes for pixel (i, j): the mean of the
\* samples' ray_color for the camera rays through (i, j).  It is a color
\* that tells the coordinates it was computed for, and is not black.
PixelColor(i, j) == <<i + 1, j + 1, 1>>

\* The `local` vector of one tile task: (i, j, final_color) for j in
\* tile.y..tile.y + tile.height, i in tile.x..tile.x + tile.width.
TileLocal(tile) ==
    [n \in 1..(tile.width * tile.height) |->
        LET i == tile.x + ((n - 1) % tile.width)
            j == tile.y + ((n - 1) \div tile.width)
        IN  <<i, j, PixelColor(i, j)>>]

RECURSIVE Concat(_, _)
Concat(outs, k) == IF k = 0 THEN << >> ELSE Concat(outs, k - 1) \o outs[k]

\* The loop `for (i, j, color) in pixels { buffer.set_pixel(i, j, color) }`
\* as a whole: the entries of pixels that set_pixel stores into slot idx.
StoresInto(w, h, pixels, idx) ==
    { n \in 1..Len(pixels) :
        /\ pixels[n][1] < w /\ pixels[n][2] < h
        /\ pixels[n][2] * w + pixels[n][1] = idx }

Last(S) == CHOOSE n \in S : \A k \in S : k <= n

\* A slot holds the color of the last entry stored into it.
StoreAll(data, w, h, pixels) ==
    [idx \in DOMAIN data |->
        LET S == StoresInto(w, h, pixels, idx)
        IN  IF S = {} THEN data[idx] ELSE set_pixel(data, w, h, pixels[Last(S)][1],
                                                     pixels[Last(S)][2], pixels[Last(S)][3])[idx]]

CountAll(cnt, w, h, pixels) ==
    [idx \in DOMAIN cnt |-> cnt[idx] + Cardinality(StoresInto(w, h, pixels, idx))]

Empty == << >>

\* The renderer when another part of the program is checked.
RenderIdle ==
    /\ mode = "none"
    /\ width = 0
    /\ height = 0
    /\ rpc = "idle"
    /\ row = 0
    /\ rowColors = Empty
    /\ tiles = Empty
    /\ tileOut = Empty
    /\ buffer = Empty
    /\ writes = Empty
    /\ bar = 0

RenderInit ==
    /\ mode \in {"scanline", "tiles"}
    /\ width \in 0..(IF mode = "scanline" THEN MaxScanWidth ELSE MaxWidth)
    /\ height \in 0..(IF mode = "scanline" THEN MaxScanHeight ELSE MaxHeight)
    /\ rpc = "init"
    /\ row = 0
    /\ rowColors = Empty
    /\ tiles = Empty
    /\ tileOut = Empty
    /\ buffer = Empty
    /\ writes = Empty
    /\ bar = 0

\* Renderer::render up to the first row: Buffer::new, then the loop over
\* (0..height).rev().
ScanStart ==
    /\ rpc = "init" /\ mode = "scanline"
    /\ buffer' = BufferNew(width, height)
    /\ writes' = [idx \in 0..(width * height - 1) |-> 0]
    /\ bar' = 0
    /\ row' = height - 1
    /\ rpc' = IF height = 0 THEN "done" ELSE "row"
    /\ UNCHANGED <<mode, width, height, rowColors, tiles, tileOut>>
    /\ UNCHANGED notRender

\* A pixel task that would store its color itself instead of returning it.
PixelTaskStoring ==
    /\ rpc = "row"
    /\ \E i \in (0..(width - 1)) \ DOMAIN rowColors :
          /\ rowColors' = [k \in DOMAIN rowColors \cup {i} |->
                             IF k = i THEN PixelColor(i, row) ELSE rowColors[k]]
          /\ buffer' = set_pixel(buffer, width, height, i, row, PixelColor(i, row))
    /\ UNCHANGED <<mode, width, height, rpc, row, tiles, tileOut, writes, bar>>
    /\ UNCHANGED notRender

\* One task of (0..width).into_par_iter().map(..): the color of pixel (i, row).
PixelTask ==
    /\ rpc = "row"
    /\ \E i \in (0..(width - 1)) \ DOMAIN rowColors :
          rowColors' = [k \in DOMAIN rowColors \cup {i} |->
                          IF k = i THEN PixelColor(i, row) ELSE rowColors[k]]
    /\ UNCHANGED <<mode, width, height, rpc, row, tiles, tileOut, buffer, writes, bar>>
    /\ UNCHANGED notRender

\* collect() has joined the row's tasks; the loop over
\* pixel_colors.into_iter().enumerate() stores them, then bar.inc(1) and the
\* next row.
RowWrite ==
    /\ rpc = "row"
    /\ DOMAIN rowColors = 0..(width - 1)
    /\ LET pixels == [n \in 1..width |-> <<n - 1, row, rowColors[n - 1]>>]
       IN  /\ buffer' = StoreAll(buffer, width, height, pixels)
           /\ writes' = CountAll(writes, width, height, pixels)
    /\ rowColors' = Empty
    /\ bar' = bar + 1
    /\ row' = row - 1
    /\ rpc' = IF row = 0 THEN "done" ELSE "row"
    /\ UNCHANGED <<mode, width, height, tiles, tileOut>>
    /\ UNCHANGED notRender

\* Renderer::render_with_tiles up to the parallel iterator.
TileStart ==
    /\ rpc = "init" /\ mode = "tiles"
    /\ tiles' = generate_tiles(width, height, TileSize)
    /\ rpc' = "tiles"
    /\ bar' = 0
    /\ UNCHANGED <<mode, width, height, row, rowColors, tileOut, buffer, writes>>
    /\ UNCHANGED notRender

\* One task of tiles.into_par_iter().flat_map(..): a whole tile, and the
\* bar.inc(1) at its end.
TileTask ==
    /\ rpc = "tiles"
    /\ \E k \in (1..Len(tiles)) \ DOMAIN tileOut :
          tileOut' = [n \in DOMAIN tileOut \cup {k} |->
                        IF n = k THEN TileLocal(tiles[k]) ELSE tileOut[n]]
    /\ bar' = bar + 1
    /\ UNCHANGED <<mode, width, height, rpc, row, rowColors, tiles, buffer, writes>>
    /\ UNCHANGED notRender

\* collect() has joined the tile tasks: Buffer::new and the loop over pixels.
TileCombine ==
    /\ rpc = "tiles"
    /\ DOMAIN tileOut = 1..Len(tiles)
    /\ LET pixels == Concat(tileOut, Len(tiles))
       IN  /\ buffer' = StoreAll(BufferNew(width, height), width, height, pixels)
           /\ writes' = CountAll([idx \in 0..(width * height - 1) |-> 0],
                                 width, height, pixels)
    /\ rpc' = "done"
    /\ UNCHANGED <<mode, width, height, row, rowColors, tiles, tileOut, bar>>
    /\ UNCHANGED notRender

RenderNext == ScanStart \/ PixelTask \/ RowWrite \/ TileStart \/ TileTask \/ TileCombine

InTile(tile, i, j) ==
    /\ tile.x <= i /\ i < tile.x + tile.width
    /\ tile.y <= j /\ j < tile.y + tile.height

\* C2 (tiles): the tiles of generate_tiles are each at most 16x16 and not
\* empty, none reaches outside the image, and every pixel of the image lies
\* in exactly one of them (pairwise disjoint, covering).
TilesPartitionImage ==
    (mode = "tiles" /\ rpc # "init") =>
        /\ \A k \in 1..Len(tiles) :
              /\ 1 <= tiles[k].width /\ tiles[k].width <= TileSize
              /\ 1 <= tiles[k].height /\ tiles[k].height <= TileSize
              /\ tiles[k].x + tiles[k].width <= width
              /\ tiles[k].y + tiles[k].height <= height
        /\ \A i \in 0..(width - 1), j \in 0..(height - 1) :
              Cardinality({ k \in 1..Len(tiles) : InTile(tiles[k], i, j) }) = 1

\* C2: in both modes no slot of the buffer is ever stored twice, and when
\* the render has finished every pixel (i, j) of the image has been stored
\* exactly once, with the color computed for (i, j); the tiles partition
\* the image.
C2_EveryPixelWrittenOnce ==
    /\ TilesPartitionImage
    /\ \A idx \in DOMAIN writes : writes[idx] <= 1
    /\ rpc = "done" =>
          /\ DOMAIN buffer = 0..(width * height - 1)
          /\ \A i \in 0..(width - 1), j \in 0..(height - 1) :
                /\ writes[j * width + i] = 1
                /\ buffer[j * width + i] = PixelColor(i, j)

\* A tiled render of an image with clipped edge tiles has finished.
C2_Witness ==
    /\ rpc = "done" /\ mode = "tiles"
    /\ Len(tiles) = 4
    /\ width = TileSize + 1 /\ height = TileSize + 1
    /\ writes[width * height - 1] = 1

\* A step of a parallel task: a pixel task hands back its color, or a tile
\* task its local vector.
TaskStep ==
    \/ (DOMAIN rowColors \subseteq DOMAIN rowColors' /\ DOMAIN rowColors' # DOMAIN rowColors)
    \/ DOMAIN tileOut' # DOMAIN tileOut

\* The tasks of the running parallel iterator have all been joined (or none
\* has been started yet).
TasksJoined ==
    \/ rpc = "init"
    \/ rpc = "row" /\ DOMAIN rowColors = 0..(width - 1)
    \/ rpc = "tiles" /\ DOMAIN tileOut = 1..Len(tiles)

\* The buffer is stored into only by the coordinating thread, between two
\* parallel iterators.
WritesAfterJoin ==
    (buffer' # buffer \/ writes' # writes) => (TasksJoined /\ ~TaskStep)

\* C23 as stated: a step of a pixel or tile task changes nothing that is
\* shared (neither the buffer nor the progress bar), and every store into
\* the buffer is done by the coordinating thread after the join of the tasks.
C23_TasksShareNoMutableState ==
    [][ /\ TaskStep => UNCHANGED <<buffer, writes, bar>>
        /\ WritesAfterJoin ]_vars

\* C23, amended: a step of a pixel or tile task never changes the buffer,
\* and the only shared state a task changes is the progress bar, which every
\* tile task advances by one (a pixel task leaves it alone); every store into
\* the buffer is done by the coordinating thread after the join of the tasks.
C23_TasksNeverWriteBuffer ==
    [][ /\ TaskStep => UNCHANGED <<buffer, writes>>
        /\ (TaskStep /\ mode = "scanline") => UNCHANGED bar
        /\ (TaskStep /\ mode = "tiles") => bar' = bar + 1
        /\ WritesAfterJoin ]_vars

\* Some tile tasks of a tiled render have finished and advanced the bar,
\* others are still running, and no buffer exists yet.
C23_Witness ==
    /\ mode = "tiles" /\ rpc = "tiles"
    /\ Len(tiles) = 4
    /\ Cardinality(DOMAIN tileOut) = 2
    /\ bar = 2
    /\ buffer = Empty

-----------------------------------------------------------------------------
(* tracer.rs: ray_color, with material/mat_trait.rs, material/lambert.rs,   *)
(* material/emissive.rs.                                                    *)
(*                                                                          *)
(* A color is one channel, the blue one, and an integer.  The worlds are    *)
(* laid out along the z axis, where every length is an integer.  The        *)
(* multiple-importance factors weight / light_pdf and weight are positive   *)
(* numbers with an irrational value (the area of a sphere): they are left   *)
(* out of the products, so a radiance of the model is zero exactly when     *)
(* the radiance of the code is.                                             *)

MaxDepth == 2

Lambertian(albedo) == [kind |-> "lambertian", albedo |-> albedo]
Emissive(color, position, radius) ==
    [kind |-> "emissive", color |-> color, position |-> position, radius |-> radius]

\* Material::emitted with the default of the trait: what a material that
\* does not override it returns.
emitted_default(mat) == 0

\* Material::emitted
emitted(mat) == IF mat.kind = "emissive" THEN mat.color ELSE 0

\* Vec3::length and utils::unit_vector for a vector along an axis.
Length(v) == Sqrt(LengthSquared(v))
unit_vector(v) == [i \in 1..3 |-> v[i] \div Length(v)]

\* f32::max(dot(unit_vector(n), unit_vector(l)), 0.0); the dot product with
\* the NaN vector unit_vector(0) is NaN, and f32::max(NaN, 0.0) is 0.0.
Cosine(n, l) ==
    IF Dot(n, l) <= 0 THEN 0 ELSE Dot(n, l) \div (Length(n) * Length(l))

\* Ray::at
At(r, t) == [i \in 1..3 |-> r.orig[i] + (t[1] * r.dir[i]) \div t[2]]

\* world.hit(r, t_min, t_max, rec) with rec.p, which every hit function sets
\* to r.at(rec.t).
WorldHit(world, r, tmin, tmax) ==
    LET h == HittableListHit(world, r, tmin, tmax)
    IN  IF ~ h.hit THEN NoHit
        ELSE [hit |-> TRUE, t |-> h.t, mat |-> h.mat, front_face |-> h.front_face,
              normal |-> h.normal, p |-> At(r, h.t)]

\* random3(): each component is drawn from [0, 1); the one draw that keeps
\* the scattered ray on the axis.
Random3 == { <<0, 0, 0>> }

NoScatter == [some |-> FALSE]

\* Material::scatter_importance: its possible results.  Emissive returns
\* None; Lambertian uses the default of the trait around Lambertian::scatter.
scatter_importance(mat, r_in, rec) ==
    IF mat.kind = "emissive" THEN { NoScatter }
    ELSE { LET scatter_direction == Add(unit_vector(rec.normal), rnd)
               attenuation == mat.albedo
               cosine == Cosine(rec.normal, scatter_direction)
           IN  [some |-> TRUE,
                scattered |-> [orig |-> rec.p, dir |-> scatter_direction],
                brdf_value |-> attenuation * cosine,
                brdf_pdf |-> 1] : rnd \in Random3 }

\* Emissive::sample_cmj(u, v) for the first light: (u, v) is cmj_samples[0],
\* with v in [0, 1/16).  v = 0 is the pole position + radius * (0, 0, 1).
sample_cmj(light) == { Add(light.position, <<0, 0, light.radius>>) }

\* world.hit(&shadow_ray, 0.001, light_distance - 0.001, ..).  When the
\* light point is the shading point, light_dir_unit is NaN: every triangle
\* test fails on u, and every sphere test passes, no comparison with the
\* NaN root being true.
ShadowRayHit(world, p, light_point) ==
    LET light_dir == Sub(light_point, p)
        light_distance == Length(light_dir)
        shadow_ray == [orig |-> p, dir |-> unit_vector(light_dir)]
    IN  IF light_distance = 0 THEN \E i \in 1..Len(world) : world[i].kind = "sph"
        ELSE HittableListHit(world, shadow_ray, Q(1, 1000),
                             Q(1000 * light_distance - 1, 1000)).hit

\* The body of the loop over lights without the shadow test.
DirectLightUnshadowed(world, rec, light, light_point, sc) ==
    IF ~ sc.some THEN 0
    ELSE light.color * sc.brdf_value * Cosine(rec.normal, Sub(light_point, rec.p))

\* The body of the loop over lights: what it adds to total_light.
DirectLight(world, rec, light, light_point, sc) ==
    IF ShadowRayHit(world, rec.p, light_point) THEN 0
    ELSE IF ~ sc.some THEN 0
    ELSE light.color * sc.brdf_value * Cosine(rec.normal, Sub(light_point, rec.p))

\* add_emission: the emission of what the scattered ray hits.
AddEmission(world, sc, cosine) ==
    LET light_hit == WorldHit(world, sc.scattered, Q(1, 1000), PosInf)
    IN  IF light_hit.hit /\ emitted(light_hit.mat) * emitted(light_hit.mat) > 0
        THEN (emitted(light_hit.mat) * sc.brdf_value * cosine) \div sc.brdf_pdf
        ELSE 0

\* The background: (1 - t) * 1.0 + t * 1.0 in the blue channel.
Background(r) == 1

\* `depth <= 0` with < for <=.
DepthExhaustedStrict(depth) == depth < 0

DepthExhausted(depth) == depth <= 0

\* The depth of the recursive call, decreased by two.
ChildDepthSkips(depth) == depth - 2

ChildDepth(depth) == depth - 1

\* One invocation of ray_color.
Frame(r, depth) ==
    [r |-> r, depth |-> depth, pc |-> "call", rec |-> NoHit, total_light |-> 0,
     light_idx |-> 0, direct |-> << >>, throughput |-> 0, calls |-> 0]

Returned(color) == [pending |-> FALSE, color |-> color]

Top == stack[Len(stack)]
SetTop(f) == [stack EXCEPT ![Len(stack)] = f]

Plane(z, mat) == Triangle(<<-2, -1, z>>, <<2, -1, z>>, <<0, 3, z>>, mat)

TheLight == Emissive(10, <<0, 0, 0>>, 1)

\* What the worlds are made of: the sphere of the light, a ceiling above
\* it, a white and a black sheet between the two, and a floor below.
TraceCatalogue ==
    << Sphere(TheLight.position, TheLight.radius, TheLight),
       Plane(4, Lambertian(1)),
       Plane(2, Lambertian(1)),
       Plane(2, Lambertian(0)),
       Plane(-3, Lambertian(1)) >>

Nth(S, i) == CHOOSE k \in S : Cardinality({ m \in S : m < k }) = i - 1

TraceWorlds ==
    { [i \in 1..Cardinality(S) |-> TraceCatalogue[Nth(S, i)]] :
        S \in SUBSET (1..Len(TraceCatalogue)) }

CameraRays ==
    { [orig |-> <<0, 0, z>>, dir |-> <<0, 0, dz>>] : z \in {-2, 3}, dz \in {-1, 1} }

\* The estimator when another part of the program is checked.
TraceIdle ==
    /\ tworld = << >>
    /\ tlights = << >>
    /\ max_depth = 0
    /\ stack = << >>
    /\ radiance = Pending

\* ray_color(&r, world, lights, max_depth as i32) has been called.
TraceInit ==
    /\ tworld \in TraceWorlds
    /\ tlights \in { << >>, <<TheLight>> }
    /\ max_depth \in 0..MaxDepth
    /\ \E r \in CameraRays : stack = <<Frame(r, max_depth)>>
    /\ radiance = Pending

\* if depth <= 0 { return Color::zero(); }
Exhausted ==
    /\ stack # << >> /\ Top.pc = "call"
    /\ DepthExhausted(Top.depth)
    /\ stack' = SetTop([Top EXCEPT !.pc = "ret", !.total_light = 0])
    /\ UNCHANGED <<tworld, tlights, max_depth, radiance>>
    /\ UNCHANGED notTrace

\* world.hit fails: the background.
Miss ==
    /\ stack # << >> /\ Top.pc = "call"
    /\ ~ DepthExhausted(Top.depth)
    /\ ~ WorldHit(tworld, Top.r, Q(1, 1000), PosInf).hit
    /\ stack' = SetTop([Top EXCEPT !.pc = "ret", !.total_light = Background(Top.r)])
    /\ UNCHANGED <<tworld, tlights, max_depth, radiance>>
    /\ UNCHANGED notTrace

\* world.hit succeeds: total_light = emitted.
HitSurface ==
    /\ stack # << >> /\ Top.pc = "call"
    /\ ~ DepthExhausted(Top.depth)
    /\ LET rec == WorldHit(tworld, Top.r, Q(1, 1000), PosInf)
       IN  /\ rec.hit
           /\ stack' = SetTop([Top EXCEPT !.pc = "lights", !.rec = rec,
                                          !.total_light = emitted(rec.mat),
                                          !.light_idx = 1])
    /\ UNCHANGED <<tworld, tlights, max_depth, radiance>>
    /\ UNCHANGED notTrace

\* One iteration of the loop over lights.
SampleLight ==
    /\ stack # << >> /\ Top.pc = "lights"
    /\ Top.light_idx <= Len(tlights)
    /\ \E light_point \in sample_cmj(tlights[Top.light_idx]) :
       \E sc \in scatter_importance(Top.rec.mat, Top.r, Top.rec) :
          LET term == DirectLight(tworld, Top.rec, tlights[Top.light_idx], light_point, sc)
          IN  stack' = SetTop([Top EXCEPT
                  !.total_light = @ + term,
                  !.direct = Append(@, [light_point |-> light_point, sc |-> sc,
                                       term |-> term]),
                  !.light_idx = @ + 1])
    /\ UNCHANGED <<tworld, tlights, max_depth, radiance>>
    /\ UNCHANGED notTrace

\* scatter_importance returns None: return total_light.
Absorb ==
    /\ stack # << >> /\ Top.pc = "lights"
    /\ Top.light_idx > Len(tlights)
    /\ \E sc \in scatter_importance(Top.rec.mat, Top.r, Top.rec) : ~ sc.some
    /\ stack' = SetTop([Top EXCEPT !.pc = "ret"])
    /\ UNCHANGED <<tworld, tlights, max_depth, radiance>>
    /\ UNCHANGED notTrace

\* scatter_importance returns a ray: add_emission, then the recursive call.
Bounce ==
    /\ stack # << >> /\ Top.pc = "lights"
    /\ Top.light_idx > Len(tlights)
    /\ \E sc \in scatter_importance(Top.rec.mat, Top.r, Top.rec) :
          /\ sc.some
          /\ LET cosine == Cosine(Top.rec.normal, sc.scattered.dir)
             IN  stack' = Append(
                    SetTop([Top EXCEPT
                        !.pc = "wait",
                        !.total_light = @ + AddEmission(tworld, sc, cosine),
                        !.throughput = (sc.brdf_value * cosine) \div sc.brdf_pdf,
                        !.calls = @ + 1]),
                    Frame(sc.scattered, ChildDepth(Top.depth)))
    /\ UNCHANGED <<tworld, tlights, max_depth, radiance>>
    /\ UNCHANGED notTrace

\* An invocation returns its value: to the renderer, or into
\* `total_light += brdf_value * ray_color(..) * cosine / brdf_pdf` of its
\* caller, which returns total_light next.
Return ==
    /\ stack # << >> /\ Top.pc = "ret"
    /\ IF Len(stack) = 1
       THEN /\ radiance' = Returned(Top.total_light)
            /\ stack' = << >>
       ELSE /\ radiance' = radiance
            /\ LET caller == stack[Len(stack) - 1]
               IN  stack' = Append(SubSeq(stack, 1, Len(stack) - 2),
                        [caller EXCEPT
                            !.pc = "ret",
                            !.total_light = @ + caller.throughput * Top.total_light])
    /\ UNCHANGED <<tworld, tlights, max_depth>>
    /\ UNCHANGED notTrace

TraceNext == Exhausted \/ Miss \/ HitSurface \/ SampleLight \/ Absorb \/ Bounce \/ Return

\* The first hit of the ray of an invocation.
FirstHit(f) == WorldHit(tworld, f.r, Q(1, 1000), PosInf)

\* C3: an invocation of ray_color with depth 0 returns zero radiance and
\* adds nothing: it tests no hit, reads no emission, samples no light, makes
\* no recursive call, and the value it returns is zero; a render with
\* max_depth 0 gets zero from the outermost call.
C3_DepthZeroReturnsZero ==
    /\ \A k \in 1..Len(stack) :
          stack[k].depth <= 0 =>
              /\ k = Len(stack)
              /\ stack[k].pc \in {"call", "ret"}
              /\ stack[k].total_light = 0
              /\ stack[k].rec = NoHit
              /\ stack[k].direct = << >>
              /\ stack[k].calls = 0
    /\ (max_depth = 0 /\ radiance # Pending) => radiance = Returned(0)

\* An invocation with depth 0 is about to return, for a ray whose first hit
\* is the light, in a world with a light to sample.
C3_Witness ==
    /\ stack # << >>
    /\ Top.pc = "ret" /\ Top.depth = 0
    /\ tlights # << >>
    /\ FirstHit(Top).hit
    /\ FirstHit(Top).mat.kind = "emissive"

\* C4 as stated: with max_depth 0, what the outermost call returns for a
\* camera ray whose first hit is an emissive surface contains the emitted
\* radiance of that surface.
C4_EmissionAtDepthZero ==
    (/\ Len(stack) = 1 /\ stack[1].pc = "ret"
     /\ max_depth = 0
     /\ FirstHit(stack[1]).hit
     /\ FirstHit(stack[1]).mat.kind = "emissive") =>
        stack[1].total_light >= FirstHit(stack[1]).mat.color

\* C4, amended: what the outermost call returns for a camera ray whose
\* first hit is an emissive surface is the emitted radiance of that surface
\* when max_depth is at least 1, and zero when max_depth is 0: the test of
\* the depth comes before the emission is read.
C4_EmissionNeedsDepth ==
    (/\ Len(stack) = 1 /\ stack[1].pc = "ret"
     /\ FirstHit(stack[1]).hit
     /\ FirstHit(stack[1]).mat.kind = "emissive") =>
        stack[1].total_light =
            IF max_depth >= 1 THEN FirstHit(stack[1]).mat.color ELSE 0

\* The outermost call is about to return the emission of the light, which
\* its camera ray hit first, with max_depth 1.
C4_Witness ==
    /\ Len(stack) = 1 /\ stack[1].pc = "ret"
    /\ max_depth = 1
    /\ tlights # << >>
    /\ FirstHit(stack[1]).hit
    /\ FirstHit(stack[1]).mat.kind = "emissive"
    /\ stack[1].total_light = TheLight.color

\* The invocations nest as the depth allows: the k-th has depth
\* max_depth - (k - 1), one less than its caller; each has made at most one
\* recursive call, one with depth 0 none; at most max_depth + 1 are open.
NestingBounded ==
    /\ Len(stack) <= max_depth + 1
    /\ \A k \in 1..Len(stack) :
          /\ stack[k].depth = max_depth - (k - 1)
          /\ stack[k].calls <= 1
          /\ stack[k].depth <= 0 => stack[k].calls = 0
          /\ k < Len(stack) => stack[k].calls = 1 /\ stack[k].pc = "wait"

\* The most steps one invocation with the given depth takes, those of the
\* invocations it calls included.
RECURSIVE InvocationSteps(_)
InvocationSteps(depth) ==
    IF depth <= 0 THEN 2
    ELSE Len(tlights) + 3 + InvocationSteps(depth - 1)

\* The most steps an open invocation still takes itself or through the
\* invocation it has yet to call.
StepsLeft(f) ==
    CASE f.pc = "call" -> InvocationSteps(f.depth)
      [] f.pc = "lights" ->
            (Len(tlights) + 1 - f.light_idx) + 2 + InvocationSteps(f.depth - 1)
      [] f.pc = "wait" -> 1
      [] f.pc = "ret" -> 1

RECURSIVE StepsLeftFrom(_)
StepsLeftFrom(k) == IF k = 0 THEN 0 ELSE StepsLeftFrom(k - 1) + StepsLeft(stack[k])

Measure == StepsLeftFrom(Len(stack))

\* The innermost invocation has a step to take.
CanStep ==
    /\ stack # << >>
    /\ \/ Top.pc = "call"
       \/ Top.pc = "ret"
       \/ /\ Top.pc = "lights"
          /\ \/ Top.light_idx <= Len(tlights)
             \/ scatter_importance(Top.rec.mat, Top.r, Top.rec) # {}

\* C5: a call of ray_color terminates: the nesting is bounded by the depth
\* at every moment, every step takes the invocations closer to their
\* return by a measure that is never negative, and as long as the outermost
\* call has not returned there is a step to take.
C5_RayColorTerminates ==
    /\ [] NestingBounded
    /\ [] (Measure >= 0)
    /\ [] (radiance = Pending => CanStep)
    /\ [][Measure' < Measure]_vars

\* The recursion has reached depth 0 from max_depth 2, the invocation with
\* depth 0 is about to return.
C5_Witness ==
    /\ max_depth = MaxDepth
    /\ Len(stack) = MaxDepth + 1
    /\ Top.depth = 0 /\ Top.pc = "ret"

\* The shadow ray from the shading point of invocation f toward light_point
\* hits an object of the world within [0.001, light_distance - 0.001].
Occluded(f, light_point) ==
    LET light_dir == Sub(light_point, f.rec.p)
    IN  /\ light_dir # <<0, 0, 0>>
        /\ HittableListHit(tworld, [orig |-> f.rec.p, dir |-> unit_vector(light_dir)],
                           Q(1, 1000), Q(1000 * Length(light_dir) - 1, 1000)).hit

\* C6: when the shadow ray toward the sampled point of a light is occluded,
\* the direct-lighting term added for that light is zero.
C6_OccludedLightAddsNothing ==
    \A k \in 1..Len(stack) :
        \A n \in 1..Len(stack[k].direct) :
            Occluded(stack[k], stack[k].direct[n].light_point) =>
                stack[k].direct[n].term = 0

\* A white surface that faces the light has sampled it with an occluder
\* between the two: the light's color, the BRDF value and the cosine are
\* all positive.
C6_Witness ==
    \E k \in 1..Len(stack) :
        /\ Len(stack[k].direct) = 1
        /\ Occluded(stack[k], stack[k].direct[1].light_point)
        /\ stack[k].rec.mat.kind = "lambertian"
        /\ stack[k].rec.mat.albedo > 0
        /\ tlights[1].color > 0
        /\ Cosine(stack[k].rec.normal,
                  Sub(stack[k].direct[1].light_point, stack[k].rec.p)) > 0
        /\ stack[k].direct[1].term = 0

\* The sphere that world.rs adds to the world for a light.
LightSphere(light) == Sphere(light.position, light.radius, light)

\* The world without the sphere of the light.
WithoutSphereOf(world, light) ==
    SelectSeq(world, LAMBDA obj : obj # LightSphere(light))

\* C30: the shadow ray toward a sampled point of a spherical light is never
\* reported occluded by the sphere of that light itself: when nothing else
\* lies between the shading point and the sampled point, the shadow test
\* lets the light contribute, for a sampled point on the near side of the
\* sphere and for one on the far side.
C30_LightNeverOccludesItself ==
    \A k \in 1..Len(stack) :
        \A n \in 1..Len(stack[k].direct) :
            LET p == stack[k].rec.p
                light_point == stack[k].direct[n].light_point
            IN  /\ ~ ShadowRayHit(<<LightSphere(tlights[n])>>, p, light_point)
                /\ ~ ShadowRayHit(WithoutSphereOf(tworld, tlights[n]), p, light_point)
                       => ~ ShadowRayHit(tworld, p, light_point)

\* Two vectors point the same way.
SameDirection(a, b) == Cross(a, b) = <<0, 0, 0>> /\ Dot(a, b) > 0

\* C20: for a light sample that is not occluded, the BRDF value and pdf of
\* the added term are those of scatter_importance for the direction of the
\* shadow ray, from the shading point to the sampled light point.
C20_BrdfTowardShadowRay ==
    \A k \in 1..Len(stack) :
        \A n \in 1..Len(stack[k].direct) :
            LET sample == stack[k].direct[n]
            IN  (~ Occluded(stack[k], sample.light_point) /\ sample.sc.some) =>
                    SameDirection(sample.sc.scattered.dir,
                                  Sub(sample.light_point, stack[k].rec.p))

-----------------------------------------------------------------------------
(* document.rs: load_obj_bvh; scene_cache.rs: GLOBAL_OBJ_CACHE              *)

MaxThreads == 2
MaxCalls == 2

Threads == 1..MaxThreads

\* The files on disk: File::open succeeds on these paths only.
Files == { "a.obj", "b.obj" }

\* (path, material, smooth) of the calls.
CacheArgs ==
    { [path |-> "a.obj", material |-> "m1", smooth |-> FALSE],
      [path |-> "a.obj", material |-> "m2", smooth |-> TRUE],
      [path |-> "b.obj", material |-> "m1", smooth |-> FALSE],
      [path |-> "missing.obj", material |-> "m1", smooth |-> FALSE] }

NoArgs == [path |-> "", material |-> "", smooth |-> FALSE]
NoHandle == [id |-> 0]

\* The Arc<dyn Hittable> returned by the id-th BVHNode::build: the tree of
\* the triangles of the file at path, each with the material, smooth or not.
Handle(id, args) ==
    [id |-> id, path |-> args.path, material |-> args.material, smooth |-> args.smooth]

\* The keys of the calls.
Paths == { args.path : args \in CacheArgs }

\* HashMap::get; a key that is not in the map is one that maps to NoHandle.
CacheGet(map, key) == map[key]

\* An insert into a map that holds one entry: the other keys are evicted.
CacheInsertEvicting(map, key, value) ==
    [k \in DOMAIN map |-> IF k = key THEN value ELSE NoHandle]

\* HashMap::insert
CacheInsert(map, key, value) == [map EXCEPT ![key] = value]

\* The cache when another part of the program is checked.
CacheIdle ==
    /\ cache = << >>
    /\ cpc = << >>
    /\ cargs = << >>
    /\ cbvh = << >>
    /\ cret = << >>
    /\ ncalls = << >>
    /\ nbuilt = 0
    /\ opened = << >>

\* Lazy::new(|| RwLock::new(HashMap::new())), no call yet.
CacheInit ==
    /\ cache = [key \in Paths |-> NoHandle]
    /\ cpc = [t \in Threads |-> "idle"]
    /\ cargs = [t \in Threads |-> NoArgs]
    /\ cbvh = [t \in Threads |-> NoHandle]
    /\ cret = [t \in Threads |-> NoHandle]
    /\ ncalls = [t \in Threads |-> 0]
    /\ nbuilt = 0
    /\ opened = [key \in Paths |-> 0]

\* A thread calls load_obj_bvh(path, material, smooth).
LoadCall(t) ==
    /\ cpc[t] \in {"idle", "done"}
    /\ ncalls[t] < MaxCalls
    /\ \E args \in CacheArgs : cargs' = [cargs EXCEPT ![t] = args]
    /\ cpc' = [cpc EXCEPT ![t] = "lookup"]
    /\ ncalls' = [ncalls EXCEPT ![t] = @ + 1]
    /\ cbvh' = [cbvh EXCEPT ![t] = NoHandle]
    /\ cret' = [cret EXCEPT ![t] = NoHandle]
    /\ UNCHANGED <<cache, nbuilt, opened>>
    /\ UNCHANGED notCache

\* The block under the read lock: cache.get(path), and the return on a hit.
\* The lock is released at the end of the block.
LoadLookup(t) ==
    /\ cpc[t] = "lookup"
    /\ IF CacheGet(cache, cargs[t].path) # NoHandle
       THEN /\ cret' = [cret EXCEPT ![t] = CacheGet(cache, cargs[t].path)]
            /\ cpc' = [cpc EXCEPT ![t] = "done"]
       ELSE /\ cret' = cret
            /\ cpc' = [cpc EXCEPT ![t] = "open"]
    /\ UNCHANGED <<cache, cargs, cbvh, ncalls, nbuilt, opened>>
    /\ UNCHANGED notCache

\* File::open(path).expect("OBJ file not found"): the thread panics when
\* the file cannot be opened.
LoadOpen(t) ==
    /\ cpc[t] = "open"
    /\ IF cargs[t].path \in Files
       THEN /\ cpc' = [cpc EXCEPT ![t] = "build"]
            /\ opened' = [opened EXCEPT ![cargs[t].path] = @ + 1]
       ELSE /\ cpc' = [cpc EXCEPT ![t] = "panicked"]
            /\ opened' = opened
    /\ UNCHANGED <<cache, cargs, cbvh, cret, ncalls, nbuilt>>
    /\ UNCHANGED notCache

\* The triangles and BVHNode::build(tris), with no lock held.
LoadBuild(t) ==
    /\ cpc[t] = "build"
    /\ nbuilt' = nbuilt + 1
    /\ cbvh' = [cbvh EXCEPT ![t] = Handle(nbuilt + 1, cargs[t])]
    /\ cpc' = [cpc EXCEPT ![t] = "insert"]
    /\ UNCHANGED <<cache, cargs, cret, ncalls, opened>>
    /\ UNCHANGED notCache

\* Under the write lock: cache.insert(path, bvh.clone()); then return bvh.
LoadInsert(t) ==
    /\ cpc[t] = "insert"
    /\ cache' = CacheInsert(cache, cargs[t].path, cbvh[t])
    /\ cret' = [cret EXCEPT ![t] = cbvh[t]]
    /\ cpc' = [cpc EXCEPT ![t] = "done"]
    /\ UNCHANGED <<cargs, cbvh, ncalls, nbuilt, opened>>
    /\ UNCHANGED notCache

CacheNext ==
    \E t \in Threads :
        LoadCall(t) \/ LoadLookup(t) \/ LoadOpen(t) \/ LoadBuild(t) \/ LoadInsert(t)

\* C7: for every key the file is read and its tree built at most once, and
\* every call that has returned for that key returned the handle the cache
\* holds for it.
C7_OneBuildOneSharedHandle ==
    /\ \A key \in Paths : opened[key] <= 1
    /\ \A t \in Threads :
          cpc[t] = "done" => cret[t] = CacheGet(cache, cargs[t].path)

\* C8: no load panics, whatever the file; a load whose file cannot be
\* opened leaves the cache as it is.
C8_MissingFileIsRecoverable ==
    \A t \in Threads : cpc[t] # "panicked"

\* C19: a key that is in the cache is in it after every step, and a load
\* that looks the key up then returns the handle the cache holds, without
\* opening the file.
C19_CacheNeverEvicted ==
    [][\A key \in Paths :
          CacheGet(cache, key) # NoHandle =>
              /\ CacheGet(cache', key) # NoHandle
              /\ \A t \in Threads :
                    (cpc[t] = "lookup" /\ cargs[t].path = key /\ cpc'[t] # "lookup") =>
                        /\ cpc'[t] = "done"
                        /\ cret'[t] = CacheGet(cache, key)
                        /\ opened' = opened]_vars

\* One thread has loaded a file and then loaded it again: the tree was
\* built once, and the second call returned it from the cache.
C19_Witness ==
    \E t \in Threads :
        /\ ncalls[t] = 2 /\ cpc[t] = "done"
        /\ \A u \in Threads \ {t} : ncalls[u] = 0
        /\ nbuilt = 1
        /\ opened[cargs[t].path] = 1
        /\ cret[t] = CacheGet(cache, cargs[t].path)
        /\ cret[t] # NoHandle

\* C27: the tree a call of load_obj_bvh(path, material, smooth) returns
\* carries the material and the smooth flag of that call, whatever loads
\* came before it, loads of the same path with another material or another
\* smooth flag included.
C27_ReturnedTreeCarriesArguments ==
    \A t \in Threads :
        cpc[t] = "done" =>
            /\ cret[t].path = cargs[t].path
            /\ cret[t].material = cargs[t].material
            /\ cret[t].smooth = cargs[t].smooth

-----------------------------------------------------------------------------
(* buffer.rs of crust-render and of the first binary (src/buffer.rs):       *)
(* set_pixel, get_pixel, get_rgb.                                           *)

MaxBufWidth == 2
MaxBufHeight == 2

BufColors == { <<1, 0, 0>>, <<0, 1, 0>> }

\* Buffer::get_rgb of crates/crust-render/src/buffer.rs
get_rgb(data, w, h, x, y) ==
    LET pixel == get_pixel(data, w, h, x, h - 1 - y)
    IN  <<pixel[1], pixel[2], pixel[3]>>

\* Buffer::get_rgb of src/buffer.rs
get_rgb_legacy(data, w, h, x, y) ==
    LET pixel == get_pixel(data, w, h, x, h - y)
    IN  <<pixel[1], pixel[2], pixel[3]>>

\* The buffer when another part of the program is checked.
BufIdle ==
    /\ bimpl = "none"
    /\ bwidth = 0
    /\ bheight = 0
    /\ bdata = Empty
    /\ blast = Empty
    /\ brgb = Pending

\* Buffer::new(width, height), of either crate.
BufInit ==
    /\ bimpl \in {"crust-render", "src"}
    /\ bwidth \in 1..MaxBufWidth
    /\ bheight \in 1..MaxBufHeight
    /\ bdata = BufferNew(bwidth, bheight)
    /\ blast = [c \in (0..(bwidth - 1)) \X (0..(bheight - 1)) |-> Black]
    /\ brgb = Pending

\* buffer.set_pixel(x, y, color), in range or not.
BufSetPixel ==
    /\ \E x \in 0..bwidth, y \in 0..bheight, color \in BufColors :
          /\ bdata' = set_pixel(bdata, bwidth, bheight, x, y, color)
          /\ blast' = IF <<x, y>> \in DOMAIN blast
                      THEN [blast EXCEPT ![<<x, y>>] = color]
                      ELSE blast
    /\ brgb' = Pending
    /\ UNCHANGED <<bimpl, bwidth, bheight>>
    /\ UNCHANGED notBuf

\* buffer.get_rgb(x, y) for a pixel of the image.
BufGetRgb ==
    /\ \E x \in 0..(bwidth - 1), y \in 0..(bheight - 1) :
          brgb' = [x |-> x, y |-> y,
                   rgb |-> IF bimpl = "src"
                           THEN get_rgb_legacy(bdata, bwidth, bheight, x, y)
                           ELSE get_rgb(bdata, bwidth, bheight, x, y)]
    /\ UNCHANGED <<bimpl, bwidth, bheight, bdata, blast>>
    /\ UNCHANGED notBuf

BufNext == BufSetPixel \/ BufGetRgb

\* C9: get_rgb(x, y) returns the components of the color last stored with
\* set_pixel(x, height - 1 - y, .), black when none was.
C9_GetRgbFlipsY ==
    brgb # Pending =>
        brgb.rgb = blast[<<brgb.x, bheight - 1 - brgb.y>>]

-----------------------------------------------------------------------------
(* Material::scatter_importance: material/mat_trait.rs, cook_torrance.rs,   *)
(* disney.rs, standard.rs; crust-core/src/material/brdf.rs.                 *)
(*                                                                          *)
(* Vectors here have rational components.  The draws of the model are the   *)
(* ones that keep every length rational: (u1, u2) = (0, 0) in               *)
(* sample_vndf_ggx and (r1, r2) = (0, 0) in random_cosine_direction.        *)

RECURSIVE Gcd(_, _)
Gcd(a, b) == IF b = 0 THEN a ELSE Gcd(b, a % b)

\* The same number in lowest terms.
Lowest(a) ==
    IF a[2] = 0 THEN <<Sign(a[1]), 0>>
    ELSE <<a[1] \div Gcd(Abs(a[1]), a[2]), a[2] \div Gcd(Abs(a[1]), a[2])>>

\* f32 arithmetic without rounding: 0 * inf, inf - inf and 0 / 0 are NaN.
RMul(a, b) == Lowest(<<a[1] * b[1], a[2] * b[2]>>)
RDiv(a, b) == RMul(a, Q(b[2], b[1]))
RAdd(a, b) ==
    IF IsNaN(a) \/ IsNaN(b) THEN NaN
    ELSE IF a[2] = 0 /\ b[2] = 0 THEN (IF a[1] = b[1] THEN a ELSE NaN)
    ELSE IF a[2] = 0 THEN a
    ELSE IF b[2] = 0 THEN b
    ELSE Lowest(<<a[1] * b[2] + b[1] * a[2], a[2] * b[2]>>)
RNeg(a) == <<-a[1], a[2]>>
RSub(a, b) == RAdd(a, RNeg(b))

\* f32::sqrt of a number whose root is rational.
RSqrt(a) == <<Sqrt(Lowest(a)[1]), Sqrt(Lowest(a)[2])>>

\* `let x = value;` followed by the statements F that use x: the value is
\* computed once, before what follows.
Let(value, F(_)) == CHOOSE y \in { F(x) : x \in { value } } : TRUE

RDot(a, b) == RAdd(RAdd(RMul(a[1], b[1]), RMul(a[2], b[2])), RMul(a[3], b[3]))
RVAdd(a, b) == <<RAdd(a[1], b[1]), RAdd(a[2], b[2]), RAdd(a[3], b[3])>>
RVScale(k, a) == <<RMul(k, a[1]), RMul(k, a[2]), RMul(k, a[3])>>
RVNeg(a) == <<RNeg(a[1]), RNeg(a[2]), RNeg(a[3])>>
RUnit(a) ==
    Let(RSqrt(RDot(a, a)), LAMBDA len :
        <<RDiv(a[1], len), RDiv(a[2], len), RDiv(a[3], len)>>)

\* std::f32::consts::PI, as a rational: no comparison a pdf goes through
\* depends on its digits.
Pi == Q(22, 7)

\* utils::reflect
reflect(v, n) ==
    Let(RMul(R(2), RDot(v, n)), LAMBDA twice :
    Let(RVScale(twice, n), LAMBDA along :
        RVAdd(v, RVNeg(along))))

\* sample_vndf_ggx for (u1, u2) = (0, 0): r = 0 and t3 = 1, so the half
\* vector of the stretched frame is the stretched view vector itself.
sample_vndf_ggx(view, roughness) ==
    Let(RUnit(<<RMul(roughness, view[1]), RMul(roughness, view[2]), view[3]>>),
        LAMBDA stretched :
            RUnit(<<RMul(roughness, stretched[1]), RMul(roughness, stretched[2]),
                    FMax(stretched[3], Q(1, 1000000))>>))

\* pdf_vndf_ggx
pdf_vndf_ggx(view, half, normal, roughness) ==
    Let(RMul(roughness, roughness), LAMBDA a2 :
    Let(FMax(RDot(normal, half), Q(1, 1000000)), LAMBDA n_dot_h :
    Let(FMax(RDot(view, half), Q(1, 1000000)), LAMBDA v_dot_h :
    Let(RAdd(RMul(RMul(n_dot_h, n_dot_h), RSub(a2, R(1))), R(1)), LAMBDA base :
    Let(RDiv(a2, RMul(Pi, RMul(base, base))), LAMBDA d :
        RDiv(RMul(d, n_dot_h), RMul(R(4), v_dot_h)))))))

\* align_to_normal(random_cosine_direction(), n) for (r1, r2) = (0, 0):
\* the local direction is (0, 0, 1), which is carried to n.
CosineDirection(n) == n

\* Some((scattered, weight, pdf)), of which the pdf is kept.
Scattered(pdf) == [some |-> TRUE, pdf |-> pdf]

\* The default of the trait: pdf = 1.0 when scatter returns true.
DefaultImportance(mat, v, n) ==
    IF mat.scatters THEN Scattered(R(1)) ELSE NoScatter

\* CookTorrance::scatter_importance; r is the draw of utils::random().
CookTorranceImportance(mat, v, n, r) ==
    LET sample_specular == Lt(r, Q(1, 2))
        Finish(l, pdf_ggx) ==
            LET pdf_cosine == RDiv(FMax(RDot(n, l), Q(1, 10000)), Pi)
                pdf_specular == RMul(pdf_ggx, Q(1, 2))
                pdf_diffuse == RMul(pdf_cosine, Q(1, 2))
                final_pdf == RAdd(pdf_specular, pdf_diffuse)
            IN  Scattered(FMax(final_pdf, Q(1, 10000)))
    IN  IF sample_specular
        THEN Let(sample_vndf_ggx(v, mat.roughness), LAMBDA h :
             Let(RVNeg(reflect(v, h)), LAMBDA l :
                 IF Le(RDot(l, n), R(0)) THEN NoScatter
                 ELSE Let(pdf_vndf_ggx(v, h, n, mat.roughness), LAMBDA pdf_ggx :
                      Finish(l, pdf_ggx))))
        ELSE Let(CosineDirection(n), LAMBDA l :
                 IF Le(RDot(l, n), R(0)) THEN NoScatter
                 ELSE Let(RUnit(RVAdd(v, l)), LAMBDA h :
                      Let(pdf_vndf_ggx(v, h, n, mat.roughness), LAMBDA pdf_ggx :
                      Finish(l, pdf_ggx))))

\* Disney::scatter_importance
DisneyImportance(mat, v, n) ==
    LET l == CosineDirection(n)
        n_dot_l == FMax(RDot(n, l), R(0))
        pdf == RDiv(n_dot_l, Pi)
    IN  Scattered(FMax(pdf, Q(1, 10000)))

\* StandardSurface::scatter_importance; r is the first draw of random2().
StandardImportance(mat, v, n, r) ==
    LET base_weight == RMul(RSub(R(1), mat.metallic), RSub(R(1), mat.transmission))
        specular_weight == mat.specular
        transmission_weight == mat.transmission
        clearcoat_weight == RMul(mat.clearcoat, RSub(R(1), mat.metallic))
        sheen_weight == RMul(mat.sheen, RSub(R(1), mat.metallic))
        subsurface_weight == RMul(mat.subsurface, RSub(R(1), mat.metallic))
        total == RAdd(RAdd(RAdd(RAdd(RAdd(base_weight, specular_weight),
                    transmission_weight), clearcoat_weight), sheen_weight),
                    subsurface_weight)
        choice == RMul(r, total)
    IN  IF Lt(choice, base_weight)
        THEN Scattered(RDiv(R(1), RMul(R(2), Pi)))
        ELSE IF Lt(choice, RAdd(base_weight, specular_weight))
        \* sample_specular: h = sample_vndf_ggx(v, roughness), l = reflect(-v, h)
        THEN Let(sample_vndf_ggx(v, mat.roughness), LAMBDA sampled :
             Let(reflect(RVNeg(v), sampled), LAMBDA l :
             Let(RUnit(RVAdd(v, l)), LAMBDA h :
             Let(pdf_vndf_ggx(v, h, n, mat.roughness), LAMBDA d :
                 Scattered(RDiv(d, RMul(R(4), FMax(RDot(l, h), Q(1, 10000)))))))))
        \* transmission, clearcoat, sheen and subsurface: pdf = 1.0
        ELSE Scattered(R(1))

Roughnesses == { R(0), Q(1, 2), R(1) }

\* CookTorrance::new clamps roughness to 0.05..=1.0; the fields are public
\* and deserialized, so a value of 0 reaches scatter_importance as well.
CookTorranceRoughnesses == { R(0), R(1) }
Weights == { R(0), R(1) }

PdfMaterials ==
    { [kind |-> "default", scatters |-> b] : b \in BOOLEAN }
    \cup { [kind |-> "cook_torrance", roughness |-> rough] :
            rough \in CookTorranceRoughnesses }
    \cup { [kind |-> "disney"] }
    \cup { [kind |-> "standard", roughness |-> rough, metallic |-> me, specular |-> sp,
            transmission |-> tr, clearcoat |-> cc, sheen |-> sh, subsurface |-> ss] :
            rough \in Roughnesses, me \in Weights, sp \in Weights, tr \in Weights,
            cc \in {R(0)}, sh \in {R(0)}, ss \in Weights }

\* Unit normals with rational components, against the incoming ray.
PdfNormals == { <<R(0), R(0), R(1)>>, <<Q(24, 25), R(0), Q(7, 25)>> }

\* The first draw of the call: utils::random(), or random2().0.
PdfDraws == { R(0), Q(1, 2) }

\* The materials when another part of the program is checked.
PdfIdle ==
    /\ pmat = [kind |-> "none"]
    /\ pnormal = <<R(0), R(0), R(1)>>
    /\ pview = <<R(0), R(0), R(1)>>
    /\ pdraw = R(0)
    /\ pres = Pending

\* A material, a hit record and a ray straight onto the xy plane: v is
\* -unit_vector(r_in.direction()).
PdfInit ==
    /\ pmat \in PdfMaterials
    /\ pnormal \in PdfNormals
    /\ pview = <<R(0), R(0), R(1)>>
    /\ pdraw \in PdfDraws
    /\ pres = Pending

ScatterDefault ==
    /\ pres = Pending /\ pmat.kind = "default"
    /\ pres' = DefaultImportance(pmat, pview, pnormal)
    /\ UNCHANGED <<pmat, pnormal, pview, pdraw>>
    /\ UNCHANGED notPdf

ScatterCookTorrance ==
    /\ pres = Pending /\ pmat.kind = "cook_torrance"
    /\ pres' = CookTorranceImportance(pmat, pview, pnormal, pdraw)
    /\ UNCHANGED <<pmat, pnormal, pview, pdraw>>
    /\ UNCHANGED notPdf

ScatterDisney ==
    /\ pres = Pending /\ pmat.kind = "disney"
    /\ pres' = DisneyImportance(pmat, pview, pnormal)
    /\ UNCHANGED <<pmat, pnormal, pview, pdraw>>
    /\ UNCHANGED notPdf

ScatterStandard ==
    /\ pres = Pending /\ pmat.kind = "standard"
    /\ pres' = StandardImportance(pmat, pview, pnormal, pdraw)
    /\ UNCHANGED <<pmat, pnormal, pview, pdraw>>
    /\ UNCHANGED notPdf

PdfNext == ScatterDefault \/ ScatterCookTorrance \/ ScatterDisney \/ ScatterStandard

\* C10: whenever scatter_importance returns Some((ray, weight, pdf)), pdf
\* is strictly greater than 0.
C10_PdfPositive ==
    (pres # Pending /\ pres.some) => Lt(R(0), pres.pdf)

-----------------------------------------------------------------------------
(* Single calls of functions of the geometry and sampling code.             *)

\* No call is made when another part of the program is checked.
CallIdle ==
    /\ call = [fn |-> "none"]
    /\ result = Pending

\* The other parts of the program while one call is checked.
OthersIdle ==
    GeomIdle /\ RenderIdle /\ TraceIdle /\ CacheIdle /\ BufIdle /\ PdfIdle

Returns(value) == [pending |-> FALSE, value |-> value]

-----------------------------------------------------------------------------
(* AABB::surrounding_box (aabb.rs)                                          *)

MaxBoxCoord == 1

\* The extent of a box on one axis, and the boxes of the calls.
Spans == { <<lo, hi>> : lo \in 0..MaxBoxCoord, hi \in 1..(MaxBoxCoord + 1) }
Boxes ==
    { AABB(<<sx[1], sy[1], sz[1]>>, <<sx[2], sy[2], sz[2]>>) :
        sx \in { sp \in Spans : sp[1] < sp[2] },
        sy \in { sp \in Spans : sp[1] < sp[2] },
        sz \in { sp \in Spans : sp[1] < sp[2] } }

BoxInit ==
    /\ call \in { [fn |-> "surrounding_box", a |-> a, b |-> b, c |-> c] :
                    a \in Boxes, b \in Boxes, c \in Boxes }
    /\ result = Pending

\* surrounding_box(a, b), surrounding_box(b, a) and the two ways of taking
\* the box around a, b and c.
SurroundingBoxes ==
    /\ call.fn = "surrounding_box" /\ result = Pending
    /\ result' = Returns([ab |-> surrounding_box(call.a, call.b),
                          ba |-> surrounding_box(call.b, call.a),
                          ab_c |-> surrounding_box(surrounding_box(call.a, call.b), call.c),
                          a_bc |-> surrounding_box(call.a, surrounding_box(call.b, call.c))])
    /\ UNCHANGED call
    /\ UNCHANGED notCall

BoxNext == SurroundingBoxes

\* Every bound of box u is the corresponding bound of a or of b.
TightTo(u, a, b) ==
    \A i \in 1..3 :
        /\ u.minimum[i] \in {a.minimum[i], b.minimum[i]}
        /\ u.maximum[i] \in {a.maximum[i], b.maximum[i]}

\* C12: surrounding_box(A, B) contains A and B, each of its six bounds is
\* the corresponding bound of A or of B, it does not depend on the order
\* of A and B, and it is associative.
C12_SurroundingBoxIsUnion ==
    result # Pending =>
        /\ Contains(result.value.ab, call.a)
        /\ Contains(result.value.ab, call.b)
        /\ TightTo(result.value.ab, call.a, call.b)
        /\ result.value.ab = result.value.ba
        /\ result.value.ab_c = result.value.a_bc

\* The boxes around two boxes of which neither contains the other, and
\* around them and a third box that sticks out.
C12_Witness ==
    /\ result # Pending
    /\ ~ Contains(call.a, call.b) /\ ~ Contains(call.b, call.a)
    /\ result.value.ab # call.a /\ result.value.ab # call.b
    /\ ~ Contains(result.value.ab, call.c)
    /\ result.value.ab_c # result.value.ab

-----------------------------------------------------------------------------
(* Sphere::hit (primitives/sphere.rs), the same computation as the Sphere   *)
(* arm of Object::hit.                                                      *)

MaxRadius == 2

SphereCenters == { <<0, 0, 0>>, <<1, 0, 0>> }
SphereOrigins == { <<0, 0, 5>>, <<0, 0, 0>>, <<1, 0, 5>>, <<0, 3, 5>>, <<0, 0, -5>> }
SphereDirections == { <<0, 0, -1>>, <<0, 0, -2>>, <<0, 0, 1>>, <<0, 3, -4>>, <<3, 0, -4>> }

\* The intervals of the queries, and intervals whose bounds are roots.
SphereIntervals ==
    Intervals \cup { <<R(0), R(4)>>, <<R(4), PosInf>>, <<R(4), R(6)>> }

\* Calls whose square root is computed without rounding.
SphereInit ==
    /\ call \in { c \in [fn : {"Sphere::hit"}, center : SphereCenters,
                         radius : 1..MaxRadius,
                         r : [orig : SphereOrigins, dir : SphereDirections],
                         interval : SphereIntervals] :
                    \/ SphereDiscriminant(c.r, c.center, c.radius) < 0
                    \/ IsSquare(SphereDiscriminant(c.r, c.center, c.radius)) }
    /\ result = Pending

SphereHit ==
    /\ call.fn = "Sphere::hit" /\ result = Pending
    /\ result' = Returns(sphere_hit(call.r, call.center, call.radius,
                                    call.interval[1], call.interval[2], "mat"))
    /\ UNCHANGED call
    /\ UNCHANGED notCall

SphereNext == SphereHit

\* The two roots of |O + tD - C|^2 = r^2 of a call with a discriminant that
\* is not negative, the smaller first.
RootsOf(c) ==
    LET oc == Sub(c.r.orig, c.center)
        a == LengthSquared(c.r.dir)
        half_b == Dot(oc, c.r.dir)
        sqrt_d == Sqrt(SphereDiscriminant(c.r, c.center, c.radius))
    IN  << <<-half_b - sqrt_d, a>>, <<-half_b + sqrt_d, a>> >>

\* r.at(t) lies on the sphere: |d (O - C) + n D| = d * radius for t = n / d.
OnSphere(c, t) ==
    LengthSquared(Add(Scale(t[2], Sub(c.r.orig, c.center)), Scale(t[1], c.r.dir)))
        = t[2] * t[2] * c.radius * c.radius

\* What Sphere::hit is to return when a root is accepted as InInterval says.
SphereHitAsStated(InInterval(_, _)) ==
    result # Pending =>
        /\ IF SphereDiscriminant(call.r, call.center, call.radius) < 0
           THEN ~ result.value.hit
           ELSE IF InInterval(RootsOf(call)[1], call.interval)
           THEN result.value.hit /\ Eq(result.value.t, RootsOf(call)[1])
           ELSE IF InInterval(RootsOf(call)[2], call.interval)
           THEN result.value.hit /\ Eq(result.value.t, RootsOf(call)[2])
           ELSE ~ result.value.hit
        /\ result.value.hit => OnSphere(call, result.value.t)
        /\ (/\ call.center = <<0, 0, 0>> /\ call.radius = 1
            /\ call.r = [orig |-> <<0, 0, 5>>, dir |-> <<0, 0, -1>>]
            /\ call.interval = <<Q(1, 1000), PosInf>>) =>
               /\ result.value.hit
               /\ Eq(result.value.t, R(4))
               /\ result.value.normal = <<0, 0, 1>>

InClosedInterval(t, iv) == Le(iv[1], t) /\ Le(t, iv[2])
InOpenInterval(t, iv) == Lt(iv[1], t) /\ Lt(t, iv[2])

-----------------------------------------------------------------------------
(* triangle_hit (primitives/triangle.rs) and SmoothTriangle::hit            *)
(* (primitives/smooth_triangle.rs)                                          *)

\* Vertices in the plane z = 0: triangles with an area, and triangles with
\* equal or collinear vertices.
TriangleVertices == { <<0, 0, 0>>, <<2, 0, 0>>, <<0, 2, 0>>, <<1, 0, 0>>, <<1, 1, 0>> }

\* Rays across the plane, and rays in it along the x axis.
TriangleRays ==
    { [orig |-> o, dir |-> d] :
        o \in { <<0, 0, 2>>, <<1, 0, 2>>, <<1, 1, 2>>, <<-1, 0, 0>> },
        d \in { <<0, 0, -1>>, <<0, 0, -2>>, <<1, 0, 0>>, <<0, 1, -2>> } }

VertexNormals == << <<0, 0, 1>>, <<1, 0, 1>>, <<0, 1, 1>> >>

TriangleInit ==
    /\ call \in [fn : {"triangle_hit", "SmoothTriangle::hit"},
                  v0 : TriangleVertices, v1 : TriangleVertices, v2 : TriangleVertices,
                  r : TriangleRays, interval : Intervals]
    /\ result = Pending

TriangleHit ==
    /\ call.fn = "triangle_hit" /\ result = Pending
    /\ result' = Returns(triangle_hit(call.r, call.v0, call.v1, call.v2,
                                      call.interval[1], call.interval[2], "mat"))
    /\ UNCHANGED call
    /\ UNCHANGED notCall

SmoothTriangleHit ==
    /\ call.fn = "SmoothTriangle::hit" /\ result = Pending
    /\ result' = Returns(smooth_triangle_hit(call.r, call.v0, call.v1, call.v2,
                             VertexNormals[1], VertexNormals[2], VertexNormals[3],
                             call.interval[1], call.interval[2], "mat"))
    /\ UNCHANGED call
    /\ UNCHANGED notCall

TriangleNext == TriangleHit \/ SmoothTriangleHit

\* The triangle of a call has no area: two vertices are equal or the three
\* are collinear.
Degenerate(c) == Cross(Sub(c.v1, c.v0), Sub(c.v2, c.v0)) = <<0, 0, 0>>

\* The ray of a call meets the segment the vertices of a degenerate
\* triangle span, at a point r.at(t) with t = n / d > 0.
MeetsSegment(c) ==
    \E n \in 1..4, d \in 1..2 :
        \E i \in {"v0", "v1", "v2"}, j \in {"v0", "v1", "v2"} :
            \E k \in 0..2 :
                \* 2 d (O + t D) = d (k c[i] + (2 - k) c[j])
                Add(Scale(2 * d, c.r.orig), Scale(2 * n, c.r.dir))
                    = Scale(d, Add(Scale(k, c[i]), Scale(2 - k, c[j])))

-----------------------------------------------------------------------------
(* HitRecord::set_face_normal (hittable.rs)                                 *)

MaxNormalCoord == 1

FaceVectors ==
    { <<x, y, z>> : x \in -MaxNormalCoord..MaxNormalCoord,
                    y \in -MaxNormalCoord..MaxNormalCoord,
                    z \in -MaxNormalCoord..MaxNormalCoord }

FaceInit ==
    /\ call \in [fn : {"set_face_normal"},
                  r : { [orig |-> <<0, 0, 0>>, dir |-> d] : d \in FaceVectors \ { <<0, 0, 0>> } },
                  outward_normal : FaceVectors \ { <<0, 0, 0>> }]
    /\ result = Pending

SetFaceNormal ==
    /\ call.fn = "set_face_normal" /\ result = Pending
    /\ result' = Returns(set_face_normal(call.r, call.outward_normal))
    /\ UNCHANGED call
    /\ UNCHANGED notCall

FaceNext == SetFaceNormal

\* C15: after set_face_normal(r, outward_normal) the stored normal is not
\* along the ray (dot(r.direction, normal) <= 0), front_face is true exactly
\* when dot(r.direction, outward_normal) < 0, and the stored normal is
\* outward_normal when front_face is true and its negation otherwise.
C15_NormalAgainstRay ==
    result # Pending =>
        LET rec == result.value
            d == Dot(call.r.dir, call.outward_normal)
        IN  /\ Dot(call.r.dir, rec.normal) <= 0
            /\ rec.front_face <=> (d < 0)
            /\ rec.normal = IF rec.front_face THEN call.outward_normal
                                              ELSE Neg(call.outward_normal)

\* An outward normal along the ray has been flipped.
C15_Witness ==
    /\ result # Pending
    /\ Dot(call.r.dir, call.outward_normal) > 0
    /\ ~ result.value.front_face
    /\ result.value.normal = Neg(call.outward_normal)

-----------------------------------------------------------------------------
(* The adaptive sampling loop of main (src/main.rs)                         *)
(*                                                                          *)
(* The loop stops on the sign of a difference of two nearly equal f32       *)
(* values, so here the f32 arithmetic keeps its rounding.  An f32 is        *)
(* man * 2^exp with 2^23 <= |man| < 2^24 (or man = 0); every operation      *)
(* rounds the exact result to nearest, ties to even.  Overflow, underflow   *)
(* and subnormal numbers are outside the values of this section.            *)

Pow2(k) == 2 ^ k

\* The number of binary digits of n > 0.
BitLen(n) == CHOOSE k \in 1..31 : n \div Pow2(k - 1) = 1

\* man * 2^exp rounded to 24 binary digits, for |man| < 2^31.
F32Round(man, exp) ==
    IF man = 0 THEN [man |-> 0, exp |-> 0]
    ELSE LET mag == Abs(man)
             bits == BitLen(mag)
         IN  IF bits <= 24
             THEN [man |-> man * Pow2(24 - bits), exp |-> exp - (24 - bits)]
             ELSE LET sh == bits - 24
                      quo == mag \div Pow2(sh)
                      rem == mag % Pow2(sh)
                      half == Pow2(sh - 1)
                      up == rem > half \/ (rem = half /\ quo % 2 = 1)
                      rounded == IF up THEN quo + 1 ELSE quo
                  IN  IF rounded = Pow2(24)
                      THEN [man |-> Sign(man) * Pow2(23), exp |-> exp + sh + 1]
                      ELSE [man |-> Sign(man) * rounded, exp |-> exp + sh]

F32Zero == F32Round(0, 0)
F32Neg(a) == [man |-> -a.man, exp |-> a.exp]

\* a + b.  The operand with the smaller exponent is aligned to five digits
\* below the other; the digits shifted out are kept as one sticky digit.
F32Add(a, b) ==
    IF a.man = 0 THEN b
    ELSE IF b.man = 0 THEN a
    ELSE LET hi == IF a.exp >= b.exp THEN a ELSE b
             lo == IF a.exp >= b.exp THEN b ELSE a
             gap == hi.exp - lo.exp
         IN  IF gap <= 5
             THEN F32Round(hi.man * Pow2(gap) + lo.man, lo.exp)
             ELSE LET out == gap - 5
                      kept == IF out >= 25 THEN 0 ELSE Abs(lo.man) \div Pow2(out)
                      sticky == IF out >= 25 \/ Abs(lo.man) % Pow2(out) # 0 THEN 1 ELSE 0
                  IN  F32Round(hi.man * 64 + Sign(lo.man) * (2 * kept + sticky),
                               hi.exp - 6)

F32Sub(a, b) == F32Add(a, F32Neg(b))

\* a * b.  The 48-digit product of the mantissas is formed from 12-digit
\* halves as high * 2^24 + low, and rounded once.
F32Mul(a, b) ==
    IF a.man = 0 \/ b.man = 0 THEN F32Zero
    ELSE LET am == Abs(a.man)
             bm == Abs(b.man)
             mid == (am \div 4096) * (bm % 4096) + (am % 4096) * (bm \div 4096)
             low0 == (mid % 4096) * 4096 + (am % 4096) * (bm % 4096)
             high == (am \div 4096) * (bm \div 4096) + mid \div 4096 + low0 \div Pow2(24)
             low == low0 % Pow2(24)
             sticky == IF low % Pow2(19) # 0 THEN 1 ELSE 0
         IN  F32Round(Sign(a.man) * Sign(b.man)
                          * (2 * (high * 32 + low \div Pow2(19)) + sticky),
                      a.exp + b.exp + 18)

\* a / (n as f32), for 1 <= n <= 16.
F32DivInt(a, n) ==
    IF a.man = 0 THEN F32Zero
    ELSE LET num == Abs(a.man) * 32
             sticky == IF num % n # 0 THEN 1 ELSE 0
         IN  F32Round(Sign(a.man) * (2 * (num \div n) + sticky), a.exp - 6)

F32Lt(a, b) == F32Sub(a, b).man < 0

\* f32::max
F32Max(a, b) == IF F32Lt(a, b) THEN b ELSE a

\* Color: +=, *, -, / f32 and max_component (color.rs).
ColorAdd(a, b) == <<F32Add(a[1], b[1]), F32Add(a[2], b[2]), F32Add(a[3], b[3])>>
ColorSub(a, b) == <<F32Sub(a[1], b[1]), F32Sub(a[2], b[2]), F32Sub(a[3], b[3])>>
ColorMul(a, b) == <<F32Mul(a[1], b[1]), F32Mul(a[2], b[2]), F32Mul(a[3], b[3])>>
ColorDiv(a, n) == <<F32DivInt(a[1], n), F32DivInt(a[2], n), F32DivInt(a[3], n)>>
max_component(c) == F32Max(F32Max(c[1], c[2]), c[3])

MIN_SAMPLES == 8

\* 0.0005 as an f32.
VARIANCE_THRESHOLD == F32Round(8589935, -34)

\* The sample budgets of a run (cli.samples_per_pixel).
MaxSpp == 10

Grey(x) == <<x, x, x>>

\* The values ray_color returns for the samples of a pixel: black, white,
\* and a grey of 5187/4096.
SampleColors == { Grey(F32Zero), Grey(F32Round(1, 0)), Grey(F32Round(5187, -12)) }

\* The threshold is the constant VARIANCE_THRESHOLD in main.rs; 0 is the
\* value it takes when adaptive stopping is to be switched off.
AdaptiveInit ==
    /\ call \in [fn : {"main"},
                  samples_per_pixel : 1..MaxSpp,
                  threshold : {F32Zero, VARIANCE_THRESHOLD},
                  sum : {Grey(F32Zero)},
                  sum_sq : {Grey(F32Zero)},
                  samples : {0},
                  below : {<< >>}]
    /\ result = Pending

\* One iteration of the loop.  below records, for every sample count, whether
\* the largest component of the variance was below the threshold.
TakeSample ==
    /\ call.fn = "main" /\ result = Pending
    /\ \E col \in SampleColors :
        LET sum == ColorAdd(call.sum, col)
            sum_sq == ColorAdd(call.sum_sq, ColorMul(col, col))
            samples == call.samples + 1
            mean == ColorDiv(sum, samples)
            mean_sq == ColorDiv(sum_sq, samples)
            variance == ColorSub(mean_sq, ColorMul(mean, mean))
            under == F32Lt(max_component(variance), call.threshold)
            stop == \/ samples >= MIN_SAMPLES
                       /\ (under \/ samples >= call.samples_per_pixel)
                    \/ samples >= call.samples_per_pixel
        IN  /\ call' = [call EXCEPT !.sum = sum, !.sum_sq = sum_sq,
                                    !.samples = samples,
                                    !.below = Append(@, under)]
            /\ result' = IF stop
                            THEN Returns([samples |-> samples, final_color |-> mean])
                            ELSE Pending
    /\ UNCHANGED notCall

AdaptiveNext == TakeSample

\* The sample count of the statement: the least n with M <= n < spp at which
\* the variance was below the threshold, or spp.
StatedSamples(c) ==
    LET early == { n \in 1..Len(c.below) :
                     /\ MIN_SAMPLES <= n /\ n < c.samples_per_pixel
                     /\ c.below[n] }
    IN  IF early = {} THEN c.samples_per_pixel
        ELSE CHOOSE n \in early : \A k \in early : n <= k

-----------------------------------------------------------------------------
(* Instance::bounding_box (instance.rs) and Mat4::transform_point (mat4.rs) *)

\* Mat4::transform_point: the first three rows of the matrix applied to
\* (p, 1); the fourth row is not read.
transform_point(mat, p) ==
    [i \in 1..3 |-> mat[i][1] * p[1] + mat[i][2] * p[2] + mat[i][3] * p[3] + mat[i][4]]

\* The result of bounding_box for an object without a box.
NoBox == [none |-> TRUE]

\* The corners of a box, in the order of instance.rs.
Corners(bbox) ==
    LET lo == bbox.minimum
        hi == bbox.maximum
    IN  << <<lo[1], lo[2], lo[3]>>, <<hi[1], lo[2], lo[3]>>,
           <<lo[1], hi[2], lo[3]>>, <<lo[1], lo[2], hi[3]>>,
           <<hi[1], hi[2], lo[3]>>, <<hi[1], lo[2], hi[3]>>,
           <<lo[1], hi[2], hi[3]>>, <<hi[1], hi[2], hi[3]>> >>

\* Instance::bounding_box from the images of the minimum and the maximum
\* corner alone.
instance_bounding_box_two_corners(transform, bbox) ==
    IF bbox = NoBox THEN NoBox
    ELSE AABB(transform_point(transform, bbox.minimum),
              transform_point(transform, bbox.maximum))

\* The loop of Instance::bounding_box over corners[from..8].
RECURSIVE GrowBox(_, _, _, _, _)
GrowBox(transform, corners, from, new_min, new_max) ==
    IF from > 8 THEN AABB(new_min, new_max)
    ELSE LET p == transform_point(transform, corners[from])
         IN  GrowBox(transform, corners, from + 1,
                     [i \in 1..3 |-> Min2(new_min[i], p[i])],
                     [i \in 1..3 |-> Max2(new_max[i], p[i])])

instance_bounding_box(transform, bbox) ==
    IF bbox = NoBox THEN NoBox
    ELSE LET corners == Corners(bbox)
             first == transform_point(transform, corners[1])
         IN  GrowBox(transform, corners, 2, first, first)

\* Transforms: the identity, a translation, a uniform scale, a mirror, a
\* quarter turn about z, a shear, a projection onto a line, and a matrix
\* with entries of both signs.
Transforms ==
    { << <<1, 0, 0, 0>>, <<0, 1, 0, 0>>, <<0, 0, 1, 0>> >>,
      << <<1, 0, 0, 1>>, <<0, 1, 0, -2>>, <<0, 0, 1, 3>> >>,
      << <<2, 0, 0, 0>>, <<0, 2, 0, 0>>, <<0, 0, 2, 0>> >>,
      << <<-1, 0, 0, 0>>, <<0, 1, 0, 0>>, <<0, 0, 1, 0>> >>,
      << <<0, -1, 0, 0>>, <<1, 0, 0, 0>>, <<0, 0, 1, 0>> >>,
      << <<1, 1, 0, 0>>, <<0, 1, 0, 0>>, <<0, 0, 1, 0>> >>,
      << <<1, 1, 1, 0>>, <<0, 0, 0, 1>>, <<0, 0, 0, 0>> >>,
      << <<1, -1, 2, 0>>, <<2, 0, -1, 1>>, <<-1, 1, 1, -1>> >> }

InstanceInit ==
    /\ call \in [fn : {"Instance::bounding_box"},
                  transform : Transforms,
                  bbox : Boxes \cup {NoBox}]
    /\ result = Pending

InstanceBoundingBox ==
    /\ call.fn = "Instance::bounding_box" /\ result = Pending
    /\ result' = Returns(instance_bounding_box(call.transform, call.bbox))
    /\ UNCHANGED call
    /\ UNCHANGED notCall

InstanceNext == InstanceBoundingBox

\* The points of a box with coordinates that are multiples of 1/2, doubled.
DoubledPointsOf(bbox) ==
    { <<x, y, z>> : x \in (2 * bbox.minimum[1])..(2 * bbox.maximum[1]),
                    y \in (2 * bbox.minimum[2])..(2 * bbox.maximum[2]),
                    z \in (2 * bbox.minimum[3])..(2 * bbox.maximum[3]) }

\* Twice the image of the point p / 2.
DoubledImage(mat, p) ==
    [i \in 1..3 |-> mat[i][1] * p[1] + mat[i][2] * p[2] + mat[i][3] * p[3] + 2 * mat[i][4]]

\* C17: Instance::bounding_box is the axis-aligned union of the 8
\* transformed corners of the child's box: its minimum is at most its
\* maximum on every axis, every face goes through a transformed corner, and
\* it contains the image of every point of the child's box.
C17_InstanceBoxContainsImage ==
    (result # Pending /\ call.fn = "Instance::bounding_box" /\ call.bbox # NoBox) =>
        LET box == result.value
            images == { transform_point(call.transform, Corners(call.bbox)[k]) : k \in 1..8 }
        IN  /\ \A a \in 1..3 :
                  /\ box.minimum[a] <= box.maximum[a]
                  /\ \A q \in images : box.minimum[a] <= q[a] /\ q[a] <= box.maximum[a]
                  /\ \E q \in images : q[a] = box.minimum[a]
                  /\ \E q \in images : q[a] = box.maximum[a]
            /\ \A p \in DoubledPointsOf(call.bbox) :
                  \A a \in 1..3 :
                      /\ 2 * box.minimum[a] <= DoubledImage(call.transform, p)[a]
                      /\ DoubledImage(call.transform, p)[a] <= 2 * box.maximum[a]

\* The box of a child has been transformed by a matrix with entries of both
\* signs: on one axis the result reaches beyond the images of the minimum
\* and the maximum corner, which are images of other corners.
C17_Witness ==
    /\ result # Pending /\ call.fn = "Instance::bounding_box" /\ call.bbox # NoBox
    /\ \E a \in 1..3 :
          /\ result.value.maximum[a]
                > Max2(transform_point(call.transform, call.bbox.minimum)[a],
                       transform_point(call.transform, call.bbox.maximum)[a])
          /\ result.value.minimum[a]
                < Min2(transform_point(call.transform, call.bbox.minimum)[a],
                       transform_point(call.transform, call.bbox.maximum)[a])

-----------------------------------------------------------------------------
(* balance_heuristic (utils/src/common.rs)                                  *)
(*                                                                          *)
(* The f32 operations with their overflow: a result of 2^128 or more is an  *)
(* infinity, and the infinities and NaN follow IEEE 754.  An infinity is    *)
(* man = 1 or -1 and NaN is man = 0, with an exponent no number has.        *)

F32NaN == [man |-> 0, exp |-> 1000]
F32Inf(sign) == [man |-> sign, exp |-> F32NaN.exp]
F32IsNaN(a) == a.exp = F32NaN.exp /\ a.man = 0
F32IsInf(a) == a.exp = F32NaN.exp /\ a.man # 0

\* The largest finite f32 is (2^24 - 1) * 2^104.
F32Overflow(a) == IF a.man # 0 /\ a.exp > 104 THEN F32Inf(Sign(a.man)) ELSE a

f32_mul(a, b) ==
    IF F32IsNaN(a) \/ F32IsNaN(b) THEN F32NaN
    ELSE IF F32IsInf(a) \/ F32IsInf(b)
         THEN IF a.man = 0 \/ b.man = 0 THEN F32NaN
              ELSE F32Inf(Sign(a.man) * Sign(b.man))
    ELSE F32Overflow(F32Mul(a, b))

f32_add(a, b) ==
    IF F32IsNaN(a) \/ F32IsNaN(b) THEN F32NaN
    ELSE IF F32IsInf(a) /\ F32IsInf(b)
         THEN IF a.man = b.man THEN a ELSE F32NaN
    ELSE IF F32IsInf(a) THEN a
    ELSE IF F32IsInf(b) THEN b
    ELSE F32Overflow(F32Add(a, b))

\* The quotient digits of a long division: steps more digits of rem / den
\* appended to quo.
RECURSIVE DivDigits(_, _, _, _)
DivDigits(quo, rem, den, steps) ==
    IF steps = 0 THEN <<quo, rem>>
    ELSE IF 2 * rem >= den
         THEN DivDigits(2 * quo + 1, 2 * rem - den, den, steps - 1)
         ELSE DivDigits(2 * quo, 2 * rem, den, steps - 1)

\* a / b for finite a and b, b not 0: 26 digits of the quotient of the
\* mantissas below the point and a sticky digit, rounded once.
F32Div(a, b) ==
    IF a.man = 0 THEN F32Zero
    ELSE LET am == Abs(a.man)
             bm == Abs(b.man)
             qr == DivDigits(am \div bm, am % bm, bm, 26)
             sticky == IF qr[2] # 0 THEN 1 ELSE 0
         IN  F32Round(Sign(a.man) * Sign(b.man) * (2 * qr[1] + sticky),
                      a.exp - b.exp - 27)

f32_div(a, b) ==
    IF F32IsNaN(a) \/ F32IsNaN(b) THEN F32NaN
    ELSE IF F32IsInf(a)
         THEN IF F32IsInf(b) THEN F32NaN
              ELSE F32Inf(a.man * (IF b.man < 0 THEN -1 ELSE 1))
    ELSE IF F32IsInf(b) THEN F32Zero
    ELSE IF b.man = 0
         THEN IF a.man = 0 THEN F32NaN ELSE F32Inf(Sign(a.man))
    ELSE F32Overflow(F32Div(a, b))

\* 1e-6 as an f32.
Epsilon == F32Round(8796093, -43)

balance_heuristic(pdf_a, pdf_b) ==
    LET pdf_a2 == f32_mul(pdf_a, pdf_a)
        pdf_b2 == f32_mul(pdf_b, pdf_b)
    IN  f32_div(pdf_a2, f32_add(f32_add(pdf_a2, pdf_b2), Epsilon))

\* Positive pdfs: 2^-40, 0.001, 0.3, 1, 5187/4096, 1000, 2^40, 2^63, 2^64,
\* and the largest finite f32.
Pdfs ==
    { F32Round(1, -40), F32Round(8589935, -33), F32Round(10066330, -25),
      F32Round(1, 0), F32Round(5187, -12), F32Round(1000, 0), F32Round(1, 40),
      F32Round(1, 63), F32Round(1, 64), F32Round(16777215, 104) }

HeuristicInit ==
    /\ call \in [fn : {"balance_heuristic"}, pdf_a : Pdfs, pdf_b : Pdfs]
    /\ result = Pending

BalanceHeuristic ==
    /\ call.fn = "balance_heuristic" /\ result = Pending
    /\ result' = Returns(balance_heuristic(call.pdf_a, call.pdf_b))
    /\ UNCHANGED call
    /\ UNCHANGED notCall

HeuristicNext == BalanceHeuristic

\* C18: for two positive pdfs a and b, balance_heuristic(a, b) is a number
\* in [0, 1].
C18_WeightInUnitInterval ==
    (result # Pending /\ call.fn = "balance_heuristic") =>
        /\ ~ F32IsNaN(result.value)
        /\ ~ F32IsInf(result.value)
        /\ result.value.man >= 0
        /\ ~ F32Lt(F32Round(1, 0), result.value)

-----------------------------------------------------------------------------
(* AABB::hit of crust-render (aabb.rs) and of crust-core (crust-core/aabb.rs) *)

SlabRays ==
    { [orig |-> o, dir |-> d] :
        o \in { <<-1, -3, 1>>, <<-1, -1, 1>>, <<0, 0, 0>>, <<1, 1, 3>> },
        d \in { <<1, 1, 0>>, <<1, 1, 1>>, <<0, 0, -1>>, <<-1, -1, -1>>, <<1, 2, 0>> } }

SlabInit ==
    /\ call \in [fn : {"crust-render AABB::hit", "crust-core AABB::hit"},
                  box : Boxes, r : SlabRays, interval : Intervals]
    /\ result = Pending

RenderAABBHit ==
    /\ call.fn = "crust-render AABB::hit" /\ result = Pending
    /\ result' = Returns(AABBHit(call.box, call.r, call.interval[1], call.interval[2]))
    /\ UNCHANGED call
    /\ UNCHANGED notCall

CoreAABBHit ==
    /\ call.fn = "crust-core AABB::hit" /\ result = Pending
    /\ result' = Returns(AABBHitCore(call.box, call.r, call.interval[1], call.interval[2]))
    /\ UNCHANGED call
    /\ UNCHANGED notCall

SlabNext == RenderAABBHit \/ CoreAABBHit

\* The slab interval of a call on axis a, as <<entry, exit>>.
SlabOf(c, a) ==
    LET x0 == MulInv(c.box.minimum[a], c.r.orig[a], c.r.dir[a])
        x1 == MulInv(c.box.maximum[a], c.r.orig[a], c.r.dir[a])
    IN  IF c.r.dir[a] < 0 THEN <<x1, x0>> ELSE <<x0, x1>>

\* The intersection of [t_min, t_max] with the three slab intervals.
NarrowedInterval(c) ==
    << FMax(FMax(FMax(c.interval[1], SlabOf(c, 1)[1]), SlabOf(c, 2)[1]), SlabOf(c, 3)[1]),
       FMin(FMin(FMin(c.interval[2], SlabOf(c, 1)[2]), SlabOf(c, 2)[2]), SlabOf(c, 3)[2]) >>

\* C21: AABB::hit returns true exactly when the interval [t_min, t_max]
\* narrowed by the three slab intervals in turn is not empty (max > min).
C21_HitIffNarrowedIntervalNonEmpty ==
    (result # Pending /\ call.fn \in {"crust-render AABB::hit", "crust-core AABB::hit"}) =>
        (result.value <=> Lt(NarrowedInterval(call)[1], NarrowedInterval(call)[2]))

-----------------------------------------------------------------------------
(* Mat4 (utils/src/mat4.rs) and Instance::hit (instance.rs)                 *)
(*                                                                          *)
(* A matrix is its four rows of numbers n / d; the arithmetic is without    *)
(* rounding.  An angle is given by its cosine and sine.                     *)

Mat4Identity ==
    << <<R(1), R(0), R(0), R(0)>>, <<R(0), R(1), R(0), R(0)>>,
       <<R(0), R(0), R(1), R(0)>>, <<R(0), R(0), R(0), R(1)>> >>

\* Mat4::translate
translate(x, y, z) ==
    [Mat4Identity EXCEPT ![1][4] = x, ![2][4] = y, ![3][4] = z]

\* Mat4::scale
scale(sc) ==
    [Mat4Identity EXCEPT ![1][1] = sc, ![2][2] = sc, ![3][3] = sc]

\* Mat4::rotate(r_x, r_y, r_z)
rotate(r_x, r_y, r_z) ==
    LET cos_x == r_x.cos
        sin_x == r_x.sin
        cos_y == r_y.cos
        sin_y == r_y.sin
        cos_z == r_z.cos
        sin_z == r_z.sin
    IN  [Mat4Identity EXCEPT
            ![1][1] = RMul(cos_y, cos_z),
            ![1][2] = RAdd(RMul(RNeg(cos_x), sin_z), RMul(RMul(sin_x, sin_y), cos_z)),
            ![1][3] = RAdd(RMul(sin_x, sin_z), RMul(RMul(cos_x, sin_y), cos_z)),
            ![2][1] = RMul(cos_y, sin_z),
            ![2][2] = RAdd(RMul(cos_x, cos_z), RMul(RMul(sin_x, sin_y), sin_z)),
            ![2][3] = RAdd(RMul(RNeg(sin_x), cos_z), RMul(RMul(cos_x, sin_y), sin_z)),
            ![3][1] = RNeg(sin_y),
            ![3][2] = RMul(sin_x, cos_y),
            ![3][3] = RMul(cos_x, cos_y)]

\* impl Mul for Mat4
Mat4Mul(lhs, rhs) ==
    [i \in 1..4 |-> [j \in 1..4 |->
        RAdd(RAdd(RAdd(RMul(lhs[i][1], rhs[1][j]), RMul(lhs[i][2], rhs[2][j])),
                  RMul(lhs[i][3], rhs[3][j])),
             RMul(lhs[i][4], rhs[4][j]))]]

\* Mat4::inverse: the reciprocals of the diagonal and the translation
\* column scaled by them; the other entries are those of the identity.
inverse(mat) ==
    LET d1 == RDiv(R(1), mat[1][1])
        d2 == RDiv(R(1), mat[2][2])
        d3 == RDiv(R(1), mat[3][3])
    IN  [Mat4Identity EXCEPT
            ![1][1] = d1, ![2][2] = d2, ![3][3] = d3,
            ![1][4] = RMul(RNeg(mat[1][4]), d1),
            ![2][4] = RMul(RNeg(mat[2][4]), d2),
            ![3][4] = RMul(RNeg(mat[3][4]), d3)]

\* Mat4::transform_direction
transform_direction(mat, v) ==
    [i \in 1..3 |->
        RAdd(RAdd(RMul(mat[i][1], v[1]), RMul(mat[i][2], v[2])), RMul(mat[i][3], v[3]))]

\* Mat4::transform_point, for a matrix and a point of numbers n / d.
Mat4TransformPoint(mat, p) ==
    [i \in 1..3 |-> RAdd(transform_direction(mat, p)[i], mat[i][4])]

\* Ray::at
RayAt(r, t) == RVAdd(r.orig, RVScale(t, r.dir))

\* Instance::hit.  child is what self.object.hit returns for the transformed
\* ray: no hit, or t and the normal of a hit; every hit function sets p to
\* the point of its ray at t.  The normal is kept as a vector of its
\* direction.
instance_hit(transform, inverse_transform, r, child) ==
    LET transformed_ray ==
            [orig |-> Mat4TransformPoint(inverse_transform, r.orig),
             dir |-> transform_direction(inverse_transform, r.dir)]
        outward_normal == transform_direction(transform, child.normal)
        front_face == Lt(RDot(r.dir, outward_normal), R(0))
    IN  IF ~ child.hit THEN NoHit
        ELSE [hit |-> TRUE, t |-> child.t,
              p |-> Mat4TransformPoint(transform, RayAt(transformed_ray, child.t)),
              front_face |-> front_face,
              normal |-> IF front_face THEN outward_normal ELSE RVNeg(outward_normal)]

\* The angles 0, pi, and the angle of the triangle with sides 3, 4, 5.
Angles == { [cos |-> R(1), sin |-> R(0)], [cos |-> R(-1), sin |-> R(0)],
            [cos |-> Q(3, 5), sin |-> Q(4, 5)] }

\* The matrices a document composes its transforms from.
Mat4Factors ==
    { Mat4Identity, translate(R(1), R(-2), R(3)), scale(R(2)), scale(Q(1, 2)) }
        \cup { rotate(Angles_x, Angles_y, Angles_z) :
                  Angles_x \in Angles, Angles_y \in {[cos |-> R(1), sin |-> R(0)]},
                  Angles_z \in Angles }

RVec(v) == <<R(v[1]), R(v[2]), R(v[3])>>

\* What the object of an instance returns: no hit, or a hit at t.
ChildHits ==
    { NoHit } \cup { [hit |-> TRUE, t |-> t, normal |-> RVec(<<0, 0, 1>>)] :
                        t \in { Q(1, 2), R(1), R(3) } }

\* Document::get_world: Instance { transform, inverse_transform:
\* transform.inverse() }, and the arguments of Instance::hit.
InstanceHitInit ==
    /\ call \in [fn : {"Instance::hit"},
                  transform : { Mat4Mul(a, b) : a \in Mat4Factors, b \in Mat4Factors },
                  r : { [orig |-> RVec(o), dir |-> RVec(d)] :
                          o \in { <<0, 0, 0>>, <<1, 2, -1>> },
                          d \in { <<0, 0, -1>>, <<1, 1, 0>> } },
                  child : ChildHits]
    /\ result = Pending

InstanceHit ==
    /\ call.fn = "Instance::hit" /\ result = Pending
    /\ result' = Returns(instance_hit(call.transform, inverse(call.transform),
                                      call.r, call.child))
    /\ UNCHANGED call
    /\ UNCHANGED notCall

InstanceHitNext == InstanceHit

\* Two points are equal, component by component.
SamePoint(a, b) == \A i \in 1..3 : Eq(a[i], b[i])

\* C22: for an instance built by Document::get_world, inverse_transform
\* composed with transform maps a point to itself, and a hit of Instance::hit
\* for the ray r has rec.p = r.at(rec.t).
C22_InstanceHitPointOnRay ==
    (result # Pending /\ call.fn = "Instance::hit") =>
        /\ \A p \in { RVec(<<0, 0, 0>>), RVec(<<1, 0, 0>>), RVec(<<0, 1, 0>>),
                       RVec(<<0, 0, 1>>) } :
              SamePoint(Mat4TransformPoint(inverse(call.transform),
                                           Mat4TransformPoint(call.transform, p)), p)
        /\ result.value.hit =>
              SamePoint(result.value.p, RayAt(call.r, result.value.t))

-----------------------------------------------------------------------------
(* BVHNode::build (bvhnode.rs, and the copy in primitives/prim.rs), one      *)
(* invocation at a time.                                                    *)
(*                                                                          *)
(* call.stack holds the open invocations, the innermost last: the list of   *)
(* each (sorted once it has passed sort_by), where it stands ("start",      *)
(* waiting for its "left" or for its "right" recursive call) and the left   *)
(* subtree once built.  call.ret is the tree an invocation has just         *)
(* returned to its caller.                                                  *)

MaxBuildLen == 4
MaxBuildDepth == 5

\* objects[mid..] with the first element left out.
RightHalfDropping(sorted) == SubSeq(sorted, Len(sorted) \div 2 + 2, Len(sorted))

\* objects[..mid] and objects[mid..] for mid = objects.len() / 2.
LeftHalf(sorted) == SubSeq(sorted, 1, Len(sorted) \div 2)
RightHalf(sorted) == SubSeq(sorted, Len(sorted) \div 2 + 1, Len(sorted))

\* The lists of distinct primitives of the catalogue, the empty one included.
RECURSIVE ListsUpTo(_)
ListsUpTo(n) ==
    IF n = 0 THEN { << >> }
    ELSE LET shorter == ListsUpTo(n - 1)
         IN  shorter \cup
             { Append(q, Catalogue[i]) :
                 q \in { x \in shorter : Len(x) = n - 1 }, i \in 1..Len(Catalogue) }

Distinct(q) == \A i, j \in 1..Len(q) : i # j => q[i] # q[j]

BuildFrame(objects, pc, left) == [objects |-> objects, pc |-> pc, left |-> left]

BuildInit ==
    /\ \E objects \in { q \in ListsUpTo(MaxBuildLen) : Distinct(q) } :
          call = [fn |-> "BVHNode::build", objects |-> objects,
                  stack |-> << BuildFrame(objects, "start", NoTree) >>,
                  ret |-> NoTree]
    /\ result = Pending

\* The innermost invocation from its entry to its return or to its first
\* recursive call: the axis drawn, sort_by, the match on objects.len().
BuildEnter ==
    /\ call.fn = "BVHNode::build" /\ result = Pending
    /\ call.ret = NoTree
    /\ call.stack # << >>
    /\ LET depth == Len(call.stack)
           top == call.stack[depth]
       IN  /\ top.pc = "start"
           /\ \E axis \in 1..3 :
                 LET sorted == SortBy(top.objects, axis)
                 IN  IF Len(sorted) = 1 THEN
                         call' = [call EXCEPT !.stack = SubSeq(call.stack, 1, depth - 1),
                                              !.ret = sorted[1]]
                     ELSE IF Len(sorted) = 2 THEN
                         call' = [call EXCEPT
                                    !.stack = SubSeq(call.stack, 1, depth - 1),
                                    !.ret = BVHNode(sorted[1], sorted[2],
                                               surrounding_box(bounding_box(sorted[1]),
                                                               bounding_box(sorted[2])))]
                     ELSE
                         /\ depth < MaxBuildDepth
                         /\ call' = [call EXCEPT
                                       !.stack = Append(
                                           [call.stack EXCEPT ![depth] =
                                               BuildFrame(sorted, "left", NoTree)],
                                           BuildFrame(LeftHalf(sorted), "start", NoTree))]
    /\ UNCHANGED result
    /\ UNCHANGED notCall

\* A recursive call has returned: the caller goes on to its second recursive
\* call, or makes its node and returns; the outermost invocation returns to
\* the caller of build.
BuildReturn ==
    /\ call.fn = "BVHNode::build" /\ result = Pending
    /\ call.ret # NoTree
    /\ LET depth == Len(call.stack)
       IN  IF depth = 0 THEN
               /\ result' = Returns(call.ret)
               /\ UNCHANGED call
           ELSE LET top == call.stack[depth]
                IN  /\ UNCHANGED result
                    /\ IF top.pc = "left" THEN
                           call' = [call EXCEPT
                                      !.stack = Append(
                                          [call.stack EXCEPT ![depth] =
                                              BuildFrame(top.objects, "right", call.ret)],
                                          BuildFrame(RightHalf(top.objects), "start", NoTree)),
                                      !.ret = NoTree]
                       ELSE
                           call' = [call EXCEPT
                                      !.stack = SubSeq(call.stack, 1, depth - 1),
                                      !.ret = BVHNode(top.left, call.ret,
                                                 surrounding_box(bounding_box(top.left),
                                                                 bounding_box(call.ret)))]
    /\ UNCHANGED notCall

BuildNext == BuildEnter \/ BuildReturn

\* A step in which an invocation makes a recursive call.
RecursiveCall == Len(call'.stack) > Len(call.stack)

\* The innermost invocation has a step to take.
BuildCanStep ==
    \/ call.ret # NoTree
    \/ call.stack # << >> /\ call.stack[Len(call.stack)].pc = "start"

\* C25: BVHNode::build terminates and returns a tree for every finite list
\* of primitives, the empty list included: every recursive call is made on
\* a list strictly shorter than its caller's, no invocation is open on an
\* empty list, and until the outermost invocation has returned there is a
\* step to take.
C25_BuildTerminates ==
    /\ [][ (call.fn = "BVHNode::build" /\ RecursiveCall) =>
              Len(call'.stack[Len(call'.stack)].objects)
                  < Len(call.stack[Len(call.stack)].objects) ]_vars
    /\ [] ((call.fn = "BVHNode::build" /\ result = Pending) =>
              /\ BuildCanStep
              /\ Len(call.stack) <= Len(call.objects) + 1)

\* The primitives at the leaves of a tree, from left to right.
RECURSIVE Leaves(_)
Leaves(obj) ==
    IF obj.kind = "node" THEN Leaves(obj.left) \o Leaves(obj.right) ELSE <<obj>>

Elements(q) == { q[i] : i \in 1..Len(q) }

\* The tree splits the list the way build does for some draw of the axes.
RECURSIVE SplitsAsBuilt(_, _)
SplitsAsBuilt(tree, objects) ==
    \E axis \in 1..3 :
        LET sorted == SortBy(objects, axis)
        IN  IF Len(sorted) = 1 THEN tree = sorted[1]
            ELSE IF Len(sorted) = 2 THEN
                /\ tree.kind = "node"
                /\ tree.left = sorted[1] /\ tree.right = sorted[2]
            ELSE
                /\ tree.kind = "node"
                /\ SplitsAsBuilt(tree.left, SubSeq(sorted, 1, Len(sorted) \div 2))
                /\ SplitsAsBuilt(tree.right, SubSeq(sorted, Len(sorted) \div 2 + 1, Len(sorted)))

\* C26: for every non-empty list, whatever axes are drawn, the leaves of the
\* tree build returns are the primitives of the list, each once; a list of
\* one returns the primitive itself, a list of two a node over the two, and
\* a longer list is split at index len / 2 after the sort by the minimum
\* coordinate of the boxes on the axis drawn.
C26_LeavesAreTheInput ==
    (call.fn = "BVHNode::build" /\ result # Pending /\ Len(call.objects) >= 1) =>
        /\ Len(Leaves(result.value)) = Len(call.objects)
        /\ Elements(Leaves(result.value)) = Elements(call.objects)
        /\ Len(call.objects) = 1 => result.value = call.objects[1]
        /\ Len(call.objects) = 2 =>
              /\ result.value.kind = "node"
              /\ {result.value.left, result.value.right} = Elements(call.objects)
        /\ SplitsAsBuilt(result.value, call.objects)

\* build has returned the tree of a list of four primitives that were not
\* in the order of the tree's leaves.
C26_Witness ==
    /\ call.fn = "BVHNode::build" /\ result # Pending
    /\ Len(call.objects) = MaxBuildLen
    /\ result.value.kind = "node"
    /\ result.value.left.kind = "node" /\ result.value.right.kind = "node"
    /\ Leaves(result.value) # call.objects

-----------------------------------------------------------------------------
(* The samples of one pixel: the loop `for sample in 0..samples_per_pixel`  *)
(* of Renderer::render and of Renderer::render_with_tiles (tracer.rs), and  *)
(* generate_cmj_2d (sampler.rs).                                            *)
(*                                                                          *)
(* The grid is held by the length of its side and the number of its         *)
(* entries; a radiance is one channel and an integer; the stored color is   *)
(* the exact quotient.  The number of entries is computed as the code       *)
(* computes it, in f32: `(samples_per_pixel as f32).sqrt().ceil() as usize`.*)

MaxSamples == 5

\* floor(sqrt(radicand) * 2^fraction) and whether it is exact, digit by
\* digit from pair k of the binary digits of the radicand down.
RECURSIVE SqrtDigits(_, _, _, _, _)
SqrtDigits(radicand, k, fraction, root, rem) ==
    IF k < -fraction THEN [root |-> root, exact |-> rem = 0]
    ELSE LET pair == IF k >= 0 THEN (radicand \div Pow2(2 * k)) % 4 ELSE 0
             r == rem * 4 + pair
             c == root * 4 + 1
         IN  IF r >= c THEN SqrtDigits(radicand, k - 1, fraction, root * 2 + 1, r - c)
             ELSE SqrtDigits(radicand, k - 1, fraction, root * 2, r)

\* f32::sqrt of a >= 0, correctly rounded.
F32Sqrt(a) ==
    IF a.man = 0 THEN a
    ELSE LET odd == a.exp % 2 # 0
             radicand == IF odd THEN a.man * 2 ELSE a.man
             exp == IF odd THEN a.exp - 1 ELSE a.exp
             digits == SqrtDigits(radicand, 12, 13, 0, 0)
         IN  F32Round(digits.root * 2 + (IF digits.exact THEN 0 ELSE 1),
                      (exp \div 2) - 14)

\* `a.ceil() as usize` for a >= 0.
CeilAsUsize(a) ==
    IF a.man = 0 THEN 0
    ELSE IF a.exp >= 0 THEN a.man * Pow2(a.exp)
    ELSE IF -a.exp > 24 THEN 1
    ELSE (a.man + Pow2(-a.exp) - 1) \div Pow2(-a.exp)

\* `samples_per_pixel as f32`
U32AsF32(n) == F32Round(n, 0)

\* A grid with one row only.
generate_cmj_2d_row(samples_per_side) ==
    [side |-> samples_per_side, len |-> samples_per_side]

\* generate_cmj_2d: n * n entries, pushed row by row.
generate_cmj_2d(samples_per_side) ==
    [side |-> samples_per_side, len |-> samples_per_side * samples_per_side]

\* The loop that would stop at min_samples_per_pixel.
SampleCountAdaptive(settings) == settings.min_samples_per_pixel

\* The bound of `for sample in 0..self.settings.samples_per_pixel`.
SampleCount(settings) == settings.samples_per_pixel

\* RenderSettings: the sample counts around 2^24, where u32 values stop
\* being f32 values, and small ones.
SampleSettings ==
    [samples_per_pixel : (0..MaxSamples) \cup {16777215, 16777216, 16777217, 16777218, 16777219},
     min_samples_per_pixel : {0, 2},
     variance_threshold : {0, 1}]

SampleRadiances == {0, 1, 3}

SampleInit ==
    /\ \E fn \in {"Renderer::render", "Renderer::render_with_tiles"},
          settings \in SampleSettings :
          call = [fn |-> fn, settings |-> settings, pc |-> "grid",
                  cmj_samples |-> generate_cmj_2d(0),
                  sample |-> 0, sum |-> 0, fallback |-> 0]
    /\ result = Pending

\* let cmj_samples = generate_cmj_2d(samples_sqrt);
GenerateGrid ==
    /\ call.fn \in {"Renderer::render", "Renderer::render_with_tiles"}
    /\ call.pc = "grid"
    /\ LET samples_sqrt == CeilAsUsize(F32Sqrt(U32AsF32(call.settings.samples_per_pixel)))
       IN  call' = [call EXCEPT !.cmj_samples = generate_cmj_2d(samples_sqrt),
                                !.pc = "loop"]
    /\ UNCHANGED result
    /\ UNCHANGED notCall

\* One iteration of the loop over the samples of a pixel: the offsets from
\* the grid or from utils::random(), ray_color, sum += col.
SampleStep ==
    /\ call.fn \in {"Renderer::render", "Renderer::render_with_tiles"}
    /\ call.pc = "loop"
    /\ call.sample < SampleCount(call.settings)
    /\ call.sample < MaxSamples
    /\ \E col \in SampleRadiances :
          call' = [call EXCEPT
                     !.sample = @ + 1,
                     !.sum = @ + col,
                     !.fallback = IF call.sample < call.cmj_samples.len THEN @ ELSE @ + 1]
    /\ UNCHANGED result
    /\ UNCHANGED notCall

\* The end of the loop: sum / samples_per_pixel as f32, which set_pixel
\* stores.
SampleStore ==
    /\ call.fn \in {"Renderer::render", "Renderer::render_with_tiles"}
    /\ call.pc = "loop"
    /\ call.sample = SampleCount(call.settings)
    /\ call' = [call EXCEPT !.pc = "done"]
    /\ result' = Returns(Q(call.sum, call.settings.samples_per_pixel))
    /\ UNCHANGED notCall

SampleNext == GenerateGrid \/ SampleStep \/ SampleStore

InSampleLoop == call.fn \in {"Renderer::render", "Renderer::render_with_tiles"}

\* C28: render and render_with_tiles evaluate exactly samples_per_pixel
\* radiance samples for a pixel and store their sum divided by
\* samples_per_pixel, whatever min_samples_per_pixel and variance_threshold
\* are.
C28_FixedSampleCount ==
    /\ (InSampleLoop /\ result = Pending) =>
          call.sample <= call.settings.samples_per_pixel
    /\ (InSampleLoop /\ result # Pending) =>
          /\ call.sample = call.settings.samples_per_pixel
          /\ result.value = Q(call.sum, call.settings.samples_per_pixel)

\* A pixel of three black samples has been stored although
\* min_samples_per_pixel is 2 and the variance threshold is not zero.
C28_Witness ==
    /\ InSampleLoop /\ result # Pending
    /\ call.settings.samples_per_pixel = 3
    /\ call.settings.min_samples_per_pixel = 2
    /\ call.settings.variance_threshold = 1
    /\ call.sample = 3 /\ call.sum = 0

\* The grid has an entry for every sample index, and no sample so far took
\* the uniform-random fallback.
GridCoversSamples ==
    /\ call.cmj_samples.len >= call.settings.samples_per_pixel
    /\ call.fallback = 0

\* C29 as stated: for every samples_per_pixel >= 1 the grid generated for a
\* render has at least samples_per_pixel entries, so no sample of a pixel
\* takes the uniform-random fallback.
C29_GridCoversEverySampleCount ==
    (InSampleLoop /\ call.pc # "grid" /\ call.settings.samples_per_pixel >= 1) =>
        GridCoversSamples

\* C29, amended: for every samples_per_pixel from 1 to 2^24 the grid has at
\* least samples_per_pixel entries and no sample takes the fallback; above
\* 2^24 the grid can be short: for 2^24 + 1 and 2^24 + 2 samples it has 2^24
\* entries.
C29_GridCoversSampleCountsUpTo2Pow24 ==
    (InSampleLoop /\ call.pc # "grid") =>
        /\ (call.settings.samples_per_pixel >= 1
                /\ call.settings.samples_per_pixel <= Pow2(24)) => GridCoversSamples
        /\ call.settings.samples_per_pixel \in {Pow2(24) + 1, Pow2(24) + 2} =>
              call.cmj_samples.len = Pow2(24)

\* The five samples of a pixel have taken their offsets from a grid of
\* three by three entries.
C29_Witness ==
    /\ InSampleLoop /\ result # Pending
    /\ call.settings.samples_per_pixel = 5
    /\ call.sample = 5
    /\ call.cmj_samples.side = 3 /\ call.cmj_samples.len = 9
    /\ call.fallback = 0

-----------------------------------------------------------------------------
(* Specifications, one for each part of the program.                        *)

InitBVH == GeomInit /\ RenderIdle /\ TraceIdle /\ CacheIdle /\ BufIdle /\ PdfIdle /\ CallIdle
SpecBVH == InitBVH /\ [][GeomNext]_vars

InitRender == RenderInit /\ GeomIdle /\ TraceIdle /\ CacheIdle /\ BufIdle /\ PdfIdle /\ CallIdle
SpecRender == InitRender /\ [][RenderNext]_vars

InitTrace == TraceInit /\ GeomIdle /\ RenderIdle /\ CacheIdle /\ BufIdle /\ PdfIdle /\ CallIdle
SpecTrace == InitTrace /\ [][TraceNext]_vars

InitCache == CacheInit /\ GeomIdle /\ RenderIdle /\ TraceIdle /\ BufIdle /\ PdfIdle /\ CallIdle
SpecCache == InitCache /\ [][CacheNext]_vars

InitBuf == BufInit /\ GeomIdle /\ RenderIdle /\ TraceIdle /\ CacheIdle /\ PdfIdle /\ CallIdle
SpecBuf == InitBuf /\ [][BufNext]_vars

InitPdf == PdfInit /\ GeomIdle /\ RenderIdle /\ TraceIdle /\ CacheIdle /\ BufIdle /\ CallIdle
SpecPdf == InitPdf /\ [][PdfNext]_vars

InitBox == BoxInit /\ OthersIdle
SpecBox == InitBox /\ [][BoxNext]_vars

InitSphere == SphereInit /\ OthersIdle
SpecSphere == InitSphere /\ [][SphereNext]_vars

InitTriangle == TriangleInit /\ OthersIdle
SpecTriangle == InitTriangle /\ [][TriangleNext]_vars

InitFace == FaceInit /\ OthersIdle
SpecFace == InitFace /\ [][FaceNext]_vars

InitAdaptive == AdaptiveInit /\ OthersIdle
SpecAdaptive == InitAdaptive /\ [][AdaptiveNext]_vars

InitInstance == InstanceInit /\ OthersIdle
SpecInstance == InitInstance /\ [][InstanceNext]_vars

InitHeuristic == HeuristicInit /\ OthersIdle
SpecHeuristic == InitHeuristic /\ [][HeuristicNext]_vars

InitSlab == SlabInit /\ OthersIdle
SpecSlab == InitSlab /\ [][SlabNext]_vars

InitInstanceHit == InstanceHitInit /\ OthersIdle
SpecInstanceHit == InitInstanceHit /\ [][InstanceHitNext]_vars

InitBuild == BuildInit /\ OthersIdle
SpecBuild == InitBuild /\ [][BuildNext]_vars

InitSample == SampleInit /\ OthersIdle
SpecSample == InitSample /\ [][SampleNext]_vars

====
